---- MODULE Spec2Model ----
(***************************************************************************)
(* Canvas Time Estimator (browser extension).                              *)
(*                                                                         *)
(* The module models four parts of the extension:                          *)
(*   - the heuristic scorer of TimeEstimator (categorizeAssignment,        *)
(*     getHeuristicEstimate), as pure operators over items;                *)
(*   - the TimeEstimator object (configure, estimateSingle, estimateAll    *)
(*     and the three backend callers), step by step at its await points;   *)
(*   - the CanvasAPI client (configure, request, getTodoItems);            *)
(*   - the background service worker (refresh pass, message handlers)      *)
(*     together with the other writers of the cache store.                 *)
(*                                                                         *)
(* Strings the code searches in (titles, type fields) are sequences of     *)
(* one-character strings.  Time is counted in minutes.                     *)
(***************************************************************************)
EXTENDS Integers, Sequences, FiniteSets, TLC

VARIABLES
    \* ---- heuristic scorer, called on one item
    hItem,          \* the item handed to the scorer
    hCategory,      \* result of categorizeAssignment, "unset" before the call
    hCalls,         \* number of getHeuristicEstimate calls made so far
    hMinutes,       \* result of the first getHeuristicEstimate call
    hAgain,         \* result of the second call on the same item
    \* ---- one TimeEstimator object and the settings store it reads
    syncStore,      \* chrome.storage.sync: aiProvider, openaiApiKey, anthropicApiKey
    est,            \* the object's fields aiProvider and apiKey
    eOp,            \* the running call: "none", "estimateAll" or "estimateSingle"
    epc,            \* where the running call stands
    eInput,         \* the items handed to the call
    eOutput,        \* the estimated items collected so far
    eInflight,      \* indexes of the items whose backend request is in flight
    eRequests,      \* the item index of every backend request issued, in order
    eLast,          \* the estimateSingle that ran last: what it loaded and got
    \* ---- one backend caller applied to one response
    pResp,          \* the response the fetch of the caller ended with
    pCaller,        \* the caller applied, "none" before the call
    pOut,           \* what the caller handed back
    \* ---- one CanvasAPI object running getTodoItems
    api,            \* the object's fields baseUrl and apiToken
    cpc,            \* where getTodoItems stands
    cHttp,          \* the endpoints an HTTP request was sent to, in order
    cCause,         \* why the planner request failed, "none" if it did not
    cError,         \* the error getTodoItems ended with, "none" if it returned
    cResult,        \* the items getTodoItems returned
    cCalls,         \* how many times getTodoItems was called
    \* ---- the same CanvasAPI object running getUpcomingAssignments
    upc,            \* where getUpcomingAssignments stands
    uCourses,       \* the courses the listing returned
    uIdx,           \* index of the course whose assignments are awaited
    uAssignments,   \* the local array assignments
    uLog,           \* per course handled: whether its fetch succeeded, and its items
    uResult,        \* the array getUpcomingAssignments returned
    \* ---- the options page, the installer and the refresh alarm
    oStore,         \* chrome.storage.sync, key by key: held or missing
    oAlarm,         \* the period of the alarm refresh-assignments, missing when there is none
    oExport,        \* the object the last export wrote to its file
    oOp,            \* the handler that ran last
    \* ---- one debounced function and the timer it owns
    dClock,         \* the time, in units of the timer
    dTimer,         \* the pending timeout: its due time and the arguments of its closure
    dLast,          \* the most recent call of the debounced function: when, and its arguments
    dSince,         \* calls made since func was last invoked
    dInvoked,       \* the invocations of func: when, and with which arguments
    dCalls,         \* calls of the debounced function made so far
    \* ---- truncate applied to one text
    tText,          \* the text
    tMax,           \* maxLength
    tSuffix,        \* the suffix
    tBy,            \* which truncate was applied, "none" before the call
    tOut,           \* what it returned
    \* ---- refresh passes that overlap
    pass,           \* each pass: who started it, where it is, and the number of its fetch
    fetches,        \* how many calls of getTodoItems have resolved
    snapshot,       \* the number of the fetch the cached snapshot was built from
    started,        \* how many passes have been started
    \* ---- the urgency predicates applied to one due date
    gDue,           \* the due date
    gNow,           \* the current time
    gBy,            \* which predicate was applied, "none" before the call
    gOut,           \* what it returned
    \* ---- the content script on one page
    cLayout,        \* each assignment element: where its title is, if it has one
    cProcessed,     \* which elements carry data-time-estimated
    cInside,        \* how many badges each element has among its descendants
    cAfter,         \* how many badges follow each element as siblings
    cScan,          \* each running injectTimeEstimates: who started it and where it is
    cScans,         \* how many scans have been started
    cReady,         \* whether onReady has run
    cTimer,         \* whether the timeout of observeDOMChanges is set
    cMarked,        \* whether the last badge went to an element that was already marked
    \* ---- service worker, popup and the stores they share
    now,            \* Date.now(), in minutes
    canvasSettings, \* chrome.storage.sync: canvasUrl, apiToken, showNotifications
    localStore,     \* chrome.storage.local: cachedAssignments, lastUpdated
    notifications,  \* the notifications created: the count each message carries
    runs,           \* number of handler runs started
    writes,         \* number of cache writes made
    handler         \* the handler runs in progress, one record each

heurVars == <<hItem, hCategory, hCalls, hMinutes, hAgain>>

estVars == <<syncStore, est, eOp, epc, eInput, eOutput, eInflight, eRequests, eLast>>

parseVars == <<pResp, pCaller, pOut>>

canvasVars == <<api, cpc, cHttp, cCause, cError, cResult, cCalls>>

upcomingVars == <<upc, uCourses, uIdx, uAssignments, uLog, uResult>>

optionsVars == <<oStore, oAlarm, oExport, oOp>>

debounceVars == <<dClock, dTimer, dLast, dSince, dInvoked, dCalls>>

truncateVars == <<tText, tMax, tSuffix, tBy, tOut>>

overlapVars == <<pass, fetches, snapshot, started>>

urgencyVars == <<gDue, gNow, gBy, gOut>>

contentVars == <<cLayout, cProcessed, cInside, cAfter, cScan, cScans, cReady, cTimer, cMarked>>

workerVars == <<now, canvasSettings, localStore, notifications, runs, writes, handler>>

vars == <<hItem, hCategory, hCalls, hMinutes, hAgain,
          syncStore, est, eOp, epc, eInput, eOutput, eInflight, eRequests, eLast,
          pResp, pCaller, pOut,
          api, cpc, cHttp, cCause, cError, cResult, cCalls,
          upc, uCourses, uIdx, uAssignments, uLog, uResult,
          oStore, oAlarm, oExport, oOp,
          dClock, dTimer, dLast, dSince, dInvoked, dCalls,
          tText, tMax, tSuffix, tBy, tOut,
          pass, fetches, snapshot, started,
          gDue, gNow, gBy, gOut,
          cLayout, cProcessed, cInside, cAfter, cScan, cScans, cReady, cTimer, cMarked,
          now, canvasSettings, localStore, notifications, runs, writes, handler>>

\* What the steps of one part leave alone: the variables of the other parts.
heurOthers     == <<estVars, parseVars, canvasVars, upcomingVars, workerVars, optionsVars, debounceVars, truncateVars, overlapVars, urgencyVars, contentVars>>
estOthers      == <<heurVars, parseVars, canvasVars, upcomingVars, workerVars, optionsVars, debounceVars, truncateVars, overlapVars, urgencyVars, contentVars>>
parseOthers    == <<heurVars, estVars, canvasVars, upcomingVars, workerVars, optionsVars, debounceVars, truncateVars, overlapVars, urgencyVars, contentVars>>
canvasOthers   == <<heurVars, estVars, parseVars, upcomingVars, workerVars, optionsVars, debounceVars, truncateVars, overlapVars, urgencyVars, contentVars>>
upcomingOthers == <<heurVars, estVars, parseVars, workerVars, optionsVars, debounceVars, truncateVars, overlapVars, urgencyVars, contentVars>>
workerOthers   == <<heurVars, estVars, parseVars, canvasVars, upcomingVars, optionsVars, debounceVars, truncateVars, overlapVars, urgencyVars, contentVars>>
optionsOthers == <<heurVars, estVars, parseVars, canvasVars, upcomingVars, workerVars, debounceVars, truncateVars, overlapVars, urgencyVars, contentVars>>
debounceOthers == <<heurVars, estVars, parseVars, canvasVars, upcomingVars, optionsVars, workerVars, truncateVars, overlapVars, urgencyVars, contentVars>>
truncateOthers == <<heurVars, estVars, parseVars, canvasVars, upcomingVars, optionsVars, debounceVars, workerVars, overlapVars, urgencyVars, contentVars>>
overlapOthers == <<heurVars, estVars, parseVars, canvasVars, upcomingVars, optionsVars, debounceVars, truncateVars, workerVars, urgencyVars, contentVars>>
urgencyOthers == <<heurVars, estVars, parseVars, canvasVars, upcomingVars, optionsVars, debounceVars, truncateVars, overlapVars, workerVars, contentVars>>
contentOthers == <<heurVars, estVars, parseVars, canvasVars, upcomingVars, optionsVars, debounceVars, truncateVars, overlapVars, urgencyVars, workerVars>>

(***************************************************************************)
(* Bounds of the model.                                                    *)
(***************************************************************************)
MaxPoints == 10
MaxItems == 2

(***************************************************************************)
(* Strings as sequences of characters.                                     *)
(***************************************************************************)
UpperChars == <<"A", "B", "C", "D", "E", "F", "G", "H", "I", "J", "K", "L", "M",
                "N", "O", "P", "Q", "R", "S", "T", "U", "V", "W", "X", "Y", "Z">>
LowerChars == <<"a", "b", "c", "d", "e", "f", "g", "h", "i", "j", "k", "l", "m",
                "n", "o", "p", "q", "r", "s", "t", "u", "v", "w", "x", "y", "z">>

\* String.prototype.toLowerCase
toLowerCase(s) ==
    [i \in 1..Len(s) |->
        IF \E k \in 1..Len(UpperChars) : UpperChars[k] = s[i]
        THEN LowerChars[CHOOSE k \in 1..Len(UpperChars) : UpperChars[k] = s[i]]
        ELSE s[i]]

\* String.prototype.includes
includes(s, sub) ==
    \E i \in 0..(Len(s) - Len(sub)) : SubSeq(s, i + 1, i + Len(sub)) = sub

\* The keywords categorizeAssignment looks for.
kwQuiz         == <<"q", "u", "i", "z">>
kwDiscussion   == <<"d", "i", "s", "c", "u", "s", "s", "i", "o", "n">>
kwEssay        == <<"e", "s", "s", "a", "y">>
kwPaper        == <<"p", "a", "p", "e", "r">>
kwProject      == <<"p", "r", "o", "j", "e", "c", "t">>
kwPresentation == <<"p", "r", "e", "s", "e", "n", "t", "a", "t", "i", "o", "n">>
kwExam         == <<"e", "x", "a", "m">>
kwTest         == <<"t", "e", "s", "t">>
kwMidterm      == <<"m", "i", "d", "t", "e", "r", "m">>
kwFinal        == <<"f", "i", "n", "a", "l">>
kwReading      == <<"r", "e", "a", "d", "i", "n", "g">>
kwRead         == <<"r", "e", "a", "d">>

(***************************************************************************)
(* Items.  title and type are character sequences, the empty sequence      *)
(* standing for an absent field (the code reads them as (x || '')).        *)
(* pointsPossible is a number or not (absent, null); submissionTypes is    *)
(* an array or not.                                                        *)
(***************************************************************************)
NoPoints == [isNumber |-> FALSE, v |-> 0]
Points(n) == [isNumber |-> TRUE, v |-> n]
NoSubmissionTypes == [isArray |-> FALSE, elems |-> <<>>]
SubmissionTypes(seq) == [isArray |-> TRUE, elems |-> seq]

AssignmentInput(title, type, points, subs) ==
    [title |-> title, type |-> type, pointsPossible |-> points, submissionTypes |-> subs]

(***************************************************************************)
(* TimeEstimator: the heuristic scorer.                                    *)
(***************************************************************************)
\* A table whose essay row was copied from the assignment row.
defaultEstimatesEssayRowWrong ==
    [quiz       |-> [base |-> 30,  perPoint |-> 1],
     discussion |-> [base |-> 45,  perPoint |-> 2],
     assignment |-> [base |-> 60,  perPoint |-> 3],
     essay      |-> [base |-> 60,  perPoint |-> 3],
     project    |-> [base |-> 180, perPoint |-> 8],
     exam       |-> [base |-> 90,  perPoint |-> 2],
     reading    |-> [base |-> 30,  perPoint |-> 1],
     default    |-> [base |-> 60,  perPoint |-> 2]]

defaultEstimates ==
    [quiz       |-> [base |-> 30,  perPoint |-> 1],
     discussion |-> [base |-> 45,  perPoint |-> 2],
     assignment |-> [base |-> 60,  perPoint |-> 3],
     essay      |-> [base |-> 120, perPoint |-> 5],
     project    |-> [base |-> 180, perPoint |-> 8],
     exam       |-> [base |-> 90,  perPoint |-> 2],
     reading    |-> [base |-> 30,  perPoint |-> 1],
     default    |-> [base |-> 60,  perPoint |-> 2]]

categorizeAssignment(assignment) ==
    LET title == toLowerCase(assignment.title)
        type  == toLowerCase(assignment.type)
    IN  IF type = kwQuiz \/ includes(title, kwQuiz) THEN "quiz"
        ELSE IF type = kwDiscussion \/ includes(title, kwDiscussion) THEN "discussion"
        ELSE IF includes(title, kwEssay) \/ includes(title, kwPaper) THEN "essay"
        ELSE IF includes(title, kwProject) \/ includes(title, kwPresentation) THEN "project"
        ELSE IF \/ includes(title, kwExam) \/ includes(title, kwTest)
                \/ includes(title, kwMidterm) \/ includes(title, kwFinal) THEN "exam"
        ELSE IF includes(title, kwReading) \/ includes(title, kwRead) THEN "reading"
        ELSE "assignment"

\* Array.prototype.includes
arrayIncludes(arr, x) == \E i \in 1..Len(arr) : arr[i] = x

MathMax(a, b) == IF a >= b THEN a ELSE b
MathMin(a, b) == IF a <= b THEN a ELSE b

\* The estimate with the lower cap forgotten.
getHeuristicEstimateNoFloor(assignment) ==
    LET type  == categorizeAssignment(assignment)
        rules == IF type \in DOMAIN defaultEstimates
                 THEN defaultEstimates[type] ELSE defaultEstimates["default"]
        m1 == IF assignment.pointsPossible.isNumber
              THEN rules.base + assignment.pointsPossible.v * rules.perPoint
              ELSE rules.base
        m2 == IF /\ assignment.submissionTypes.isArray
                 /\ arrayIncludes(assignment.submissionTypes.elems, "online_upload")
              THEN m1 + 15 ELSE m1
        m3 == IF /\ assignment.submissionTypes.isArray
                 /\ arrayIncludes(assignment.submissionTypes.elems, "media_recording")
              THEN m2 + 30 ELSE m2
    IN  MathMin(m3, 480)

\* An else-if where the code has two ifs: the media bonus only without
\* an upload.
minutesBeforeClampExclusive(assignment) ==
    LET type  == categorizeAssignment(assignment)
        rules == IF type \in DOMAIN defaultEstimates
                 THEN defaultEstimates[type] ELSE defaultEstimates["default"]
        m1 == IF assignment.pointsPossible.isNumber
              THEN rules.base + assignment.pointsPossible.v * rules.perPoint
              ELSE rules.base
    IN  IF /\ assignment.submissionTypes.isArray
           /\ arrayIncludes(assignment.submissionTypes.elems, "online_upload")
        THEN m1 + 15
        ELSE IF /\ assignment.submissionTypes.isArray
                /\ arrayIncludes(assignment.submissionTypes.elems, "media_recording")
        THEN m1 + 30 ELSE m1

\* The local minutes of getHeuristicEstimate before the return statement
\* clamps it.
minutesBeforeClamp(assignment) ==
    LET type  == categorizeAssignment(assignment)
        rules == IF type \in DOMAIN defaultEstimates
                 THEN defaultEstimates[type] ELSE defaultEstimates["default"]
        m0 == rules.base
        m1 == IF assignment.pointsPossible.isNumber
              THEN m0 + assignment.pointsPossible.v * rules.perPoint
              ELSE m0
        m2 == IF /\ assignment.submissionTypes.isArray
                 /\ arrayIncludes(assignment.submissionTypes.elems, "online_upload")
              THEN m1 + 15 ELSE m1
        m3 == IF /\ assignment.submissionTypes.isArray
                 /\ arrayIncludes(assignment.submissionTypes.elems, "media_recording")
              THEN m2 + 30 ELSE m2
    IN  m3

getHeuristicEstimate(assignment) ==
    MathMin(MathMax(minutesBeforeClamp(assignment), 15), 480)

(***************************************************************************)
(* The items the scorer is exercised on.                                   *)
(***************************************************************************)
SampleTitles ==
    { <<>>,
      <<"Q", "u", "i", "z", " ", "D", "i", "s", "c", "u", "s", "s", "i", "o", "n">>,
      <<"D", "i", "s", "c", "u", "s", "s", "i", "o", "n", " ", "Q", "u", "i", "z">>,
      <<"E", "s", "s", "a", "y", " ", "1">>,
      <<"P", "r", "o", "j", "e", "c", "t", " ", "P", "a", "p", "e", "r">>,
      <<"F", "i", "n", "a", "l", " ", "P", "r", "e", "s", "e", "n", "t", "a", "t", "i", "o", "n">>,
      <<"R", "e", "a", "d", "i", "n", "g", " ", "T", "e", "s", "t">>,
      <<"T", "h", "r", "e", "a", "d">>,
      <<"M", "I", "D", "T", "E", "R", "M">>,
      <<"H", "W", " ", "3">> }

SampleTypes ==
    { <<>>,
      <<"q", "u", "i", "z">>,
      <<"Q", "u", "i", "z">>,
      <<"d", "i", "s", "c", "u", "s", "s", "i", "o", "n">>,
      <<"a", "s", "s", "i", "g", "n", "m", "e", "n", "t">>,
      <<"e", "x", "a", "m">>,
      <<"s", "u", "b", "m", "i", "t", "t", "i", "n", "g">> }

SamplePoints ==
    {NoPoints} \cup {Points(n) : n \in (-MaxPoints..MaxPoints) \cup {20, 1000, -1000, 1000000}}

SampleSubmissionTypes ==
    { NoSubmissionTypes,
      SubmissionTypes(<<>>),
      SubmissionTypes(<<"online_upload">>),
      SubmissionTypes(<<"media_recording">>),
      SubmissionTypes(<<"online_upload", "media_recording">>),
      SubmissionTypes(<<"media_recording", "online_text_entry", "online_upload">>) }

HeurItems ==
    { AssignmentInput(t, ty, p, s) :
        t \in SampleTitles, ty \in SampleTypes, p \in SamplePoints, s \in SampleSubmissionTypes }

(***************************************************************************)
(* JavaScript values that reach estimatedMinutes.                          *)
(***************************************************************************)
JSNumber(n) == [ty |-> "number", v |-> n]
JSUndefined == [ty |-> "undefined", v |-> 0]
JSNull      == [ty |-> "null", v |-> 0]
JSString    == [ty |-> "string", v |-> 0]

(***************************************************************************)
(* The text a backend answers with, as a sequence of lexical tokens:       *)
(*   lbrace {   rbrace }   key "minutes":   num <digits>   null null       *)
(*   str "<a quoted string>"   member <another "name": value pair>         *)
(*   minword minutes|minute   word <any other run of characters>           *)
(***************************************************************************)
Tok(t) == [t |-> t, v |-> 0]
NumTok(n) == [t |-> "num", v |-> n]

NoContent == [present |-> FALSE, toks |-> <<>>]
Content(toks) == [present |-> TRUE, toks |-> toks]

\* The error a call ended with: its kind, and for a non-success status the
\* status code and, where the message has it, the body text.
NoErr == [kind |-> "none", status |-> 0, body |-> NoContent]
Err(kind, status, body) == [kind |-> kind, status |-> status, body |-> body]

\* What a call of JSON.parse, or of a backend caller, hands back.
Threw == [threw |-> TRUE, k |-> "none", minutes |-> JSUndefined,
          err |-> Err("syntax", 0, NoContent)]
Returned(k, minutes) == [threw |-> FALSE, k |-> k, minutes |-> minutes, err |-> NoErr]
Failed(kind, status, body) == [Threw EXCEPT !.err = Err(kind, status, body)]

isValueTok(tok) == tok.t \in {"num", "null", "str"}
valueOf(tok) ==
    IF tok.t = "num" THEN JSNumber(tok.v)
    ELSE IF tok.t = "null" THEN JSNull
    ELSE JSString

\* JSON.parse on a token sequence: a number, null, a string, or an object
\* with at most one "minutes" member.
JSONparse(toks) ==
    LET n == Len(toks) IN
    IF n = 1 /\ toks[1].t = "num" THEN Returned("number", JSUndefined)
    ELSE IF n = 1 /\ toks[1].t = "null" THEN Returned("null", JSUndefined)
    ELSE IF n = 1 /\ toks[1].t = "str" THEN Returned("string", JSUndefined)
    ELSE IF n >= 2 /\ toks[1].t = "lbrace" /\ toks[n].t = "rbrace" THEN
        LET body == SubSeq(toks, 2, n - 1)
            b    == Len(body)
        IN  IF b = 0 THEN Returned("object", JSUndefined)
            ELSE IF b = 1 /\ body[1].t = "member" THEN Returned("object", JSUndefined)
            ELSE IF b = 2 /\ body[1].t = "key" /\ isValueTok(body[2])
                THEN Returned("object", valueOf(body[2]))
            ELSE IF b = 3 /\ body[1].t = "key" /\ isValueTok(body[2]) /\ body[3].t = "member"
                THEN Returned("object", valueOf(body[2]))
            ELSE IF b = 3 /\ body[1].t = "member" /\ body[2].t = "key" /\ isValueTok(body[3])
                THEN Returned("object", valueOf(body[3]))
            ELSE Threw
    ELSE Threw

\* content.match(/(\d+)\s*minutes?/i): the first number directly followed by
\* the word; 0 when there is none, else its position.
matchMinutes(toks) ==
    LET hits == {i \in 1..(Len(toks) - 1) : toks[i].t = "num" /\ toks[i + 1].t = "minword"}
    IN  IF hits = {} THEN 0 ELSE CHOOSE i \in hits : \A j \in hits : i <= j

\* content.match(/\{[\s\S]*"minutes"[\s\S]*\}/): from the first brace that has
\* the key and a closing brace after it, greedily to the last closing brace.
matchJsonObject(toks) ==
    LET n      == Len(toks)
        starts == {i \in 1..n : /\ toks[i].t = "lbrace"
                                /\ \E k \in (i + 1)..n :
                                       /\ toks[k].t = "key"
                                       /\ \E j \in (k + 1)..n : toks[j].t = "rbrace"}
    IN  IF starts = {} THEN <<>>
        ELSE LET i == CHOOSE x \in starts : \A y \in starts : x <= y
                 j == CHOOSE x \in 1..n : /\ toks[x].t = "rbrace"
                                          /\ \A y \in 1..n : toks[y].t = "rbrace" => y <= x
             IN  SubSeq(toks, i, j)

(***************************************************************************)
(* Backend responses: fetch rejects (neterr), or resolves with a status    *)
(* and a body whose text field may be missing.                             *)
(***************************************************************************)
NetworkError == [neterr |-> TRUE, status |-> 0, content |-> NoContent]
HttpResponse(status, content) == [neterr |-> FALSE, status |-> status, content |-> content]
responseOk(r) == r.status >= 200 /\ r.status <= 299

\* try { JSON.parse(content) } catch { regex, else throw }, of callOpenAI and
\* callAnthropic; content.match on a missing text throws out of the catch.
\* A last stage that hands back a default where the hosted callers throw.
parseHostedWithDefault(content) ==
    IF ~content.present THEN Failed("type", 0, NoContent)
    ELSE LET j == JSONparse(content.toks) IN
         IF ~j.threw THEN j
         ELSE LET m == matchMinutes(content.toks) IN
              IF m # 0 THEN Returned("object", JSNumber(content.toks[m].v))
              ELSE Returned("object", JSNumber(60))

parseHosted(content) ==
    IF ~content.present THEN Failed("type", 0, NoContent)
    ELSE LET j == JSONparse(content.toks) IN
         IF ~j.threw THEN j
         ELSE LET m == matchMinutes(content.toks) IN
              IF m # 0 THEN Returned("object", JSNumber(content.toks[m].v))
              ELSE Failed("parse", 0, NoContent)

\* throw new Error(`OpenAI API error: ${response.status}`)
callOpenAI(r) ==
    IF r.neterr THEN Failed("network", 0, NoContent)
    ELSE IF ~responseOk(r) THEN Failed("status", r.status, NoContent)
    ELSE parseHosted(r.content)

callAnthropic(r) ==
    IF r.neterr THEN Failed("network", 0, NoContent)
    ELSE IF ~responseOk(r) THEN Failed("status", r.status, NoContent)
    ELSE parseHosted(r.content)

\* The local caller with its last stage failing like the hosted ones.
callOllamaNoDefault(r) ==
    IF r.neterr THEN Threw
    ELSE IF ~responseOk(r) THEN Threw
    ELSE parseHosted(r.content)

\* A non-success status throws with the status and the body text; a missing
\* text makes content.match throw inside the try and again inside the catch.
callOllama(r) ==
    IF r.neterr THEN Failed("network", 0, NoContent)
    ELSE IF ~responseOk(r) THEN Failed("status", r.status, r.content)
    ELSE IF ~r.content.present THEN Failed("type", 0, NoContent)
    ELSE LET jm == matchJsonObject(r.content.toks)
             j  == IF jm # <<>> THEN JSONparse(jm) ELSE Threw
         IN  IF ~j.threw THEN j
             ELSE LET m == matchMinutes(r.content.toks) IN
                  IF m # 0 THEN Returned("object", JSNumber(r.content.toks[m].v))
                  ELSE Returned("object", JSNumber(60))

\* getAIEstimate once the response is there.
getAIEstimate(provider, r) ==
    IF provider = "openai" THEN callOpenAI(r)
    ELSE IF provider = "anthropic" THEN callAnthropic(r)
    ELSE IF provider = "local" THEN callOllama(r)
    ELSE Failed("unknown provider", 0, NoContent)

(***************************************************************************)
(* TimeEstimator.configure and the decision of estimateSingle.             *)
(***************************************************************************)
\* settings.aiProvider || 'none'; apiKey is assigned for the hosted providers
\* only and keeps its former value otherwise.
configure(e, settings) ==
    LET provider == IF settings.aiProvider = "" THEN "none" ELSE settings.aiProvider
    IN  [aiProvider |-> provider,
         apiKey     |-> IF provider = "openai" THEN settings.openaiApiKey
                        ELSE IF provider = "anthropic" THEN settings.anthropicApiKey
                        ELSE e.apiKey]

\* The decision with the credential test left out.
useAIIgnoringKey(e) ==
    e.aiProvider \in {"local", "openai", "anthropic"}

useAI(e) ==
    \/ e.aiProvider = "local"
    \/ (e.apiKey # "" /\ (e.aiProvider = "openai" \/ e.aiProvider = "anthropic"))

EstimatedItem(assignment, minutes, method) ==
    [title |-> assignment.title, type |-> assignment.type,
     pointsPossible |-> assignment.pointsPossible,
     submissionTypes |-> assignment.submissionTypes,
     estimatedMinutes |-> minutes, estimationMethod |-> method]

itemOf(estimated) ==
    AssignmentInput(estimated.title, estimated.type,
                    estimated.pointsPossible, estimated.submissionTypes)

heuristicResult(assignment) ==
    EstimatedItem(assignment, JSNumber(getHeuristicEstimate(assignment)), "heuristic")

\* An estimateSingle without its try/catch: a failing call escapes.
aiResultUncaught(assignment, call) ==
    IF call.threw \/ call.k = "null"
    THEN EstimatedItem(assignment, JSUndefined, "raised")
    ELSE EstimatedItem(assignment, call.minutes, "ai")

\* Lines 121-132: aiEstimate.minutes is read inside the try, so a call that
\* throws, or that returns null, ends in the catch.
aiResult(assignment, call) ==
    IF call.threw \/ call.k = "null"
    THEN heuristicResult(assignment)
    ELSE EstimatedItem(assignment, call.minutes, "ai")

(***************************************************************************)
(* Inputs of the estimator: stored settings, items, backend responses.     *)
(***************************************************************************)
Settings(provider, openaiKey, anthropicKey) ==
    [aiProvider |-> provider, openaiApiKey |-> openaiKey, anthropicApiKey |-> anthropicKey]

\* aiProvider "" is an absent key; "azure" stands for a value the code does not
\* know.  A key "" is absent or empty.
SettingsStores ==
    { Settings(p, k[1], k[2]) :
        p \in {"", "none", "openai", "anthropic", "local", "azure"},
        k \in {<<"", "">>, <<"sk-o", "">>, <<"", "sk-a">>} }

EssayItem ==
    AssignmentInput(<<"E", "s", "s", "a", "y", " ", "1">>, <<>>, Points(20), SubmissionTypes(<<>>))
QuizItem ==
    AssignmentInput(<<"Q", "u", "i", "z", " ", "D", "i", "s", "c", "u", "s", "s", "i", "o", "n">>,
                    <<"q", "u", "i", "z">>, NoPoints, SubmissionTypes(<<"online_upload">>))
EstItems == {EssayItem, QuizItem}

ItemSeqs(n) == UNION { [1..k -> EstItems] : k \in 0..n }

TextStrictJson   == <<Tok("lbrace"), Tok("key"), NumTok(45), Tok("member"), Tok("rbrace")>>
TextEmbeddedJson == <<Tok("word"), Tok("lbrace"), Tok("key"), NumTok(45), Tok("member"),
                      Tok("rbrace"), Tok("word")>>
TextPhrase       == <<Tok("word"), NumTok(90), Tok("minword")>>
TextGarbage      == <<Tok("word"), Tok("word")>>
TextEmpty        == <<>>
TextBareNumber   == <<NumTok(45)>>
TextMinutesNull  == <<Tok("lbrace"), Tok("key"), Tok("null"), Tok("rbrace")>>
TextNoMinutes    == <<Tok("lbrace"), Tok("member"), Tok("rbrace")>>
TextNull         == <<Tok("null")>>
TextBrokenJson   == <<Tok("lbrace"), Tok("key"), Tok("word"), NumTok(30), Tok("minword"),
                      Tok("rbrace")>>

SampleTexts ==
    { TextStrictJson, TextEmbeddedJson, TextPhrase, TextGarbage, TextEmpty, TextBareNumber,
      TextMinutesNull, TextNoMinutes, TextNull, TextBrokenJson }

\* The responses the estimator is run against: one per way a caller can end.
Responses ==
    {NetworkError, HttpResponse(500, NoContent), HttpResponse(200, NoContent)}
    \cup {HttpResponse(200, Content(t)) :
             t \in {TextStrictJson, TextPhrase, TextGarbage, TextBareNumber}}

(***************************************************************************)
(* The TimeEstimator object at work: estimateAll and estimateSingle, one   *)
(* step per await, while the options page may save settings.               *)
(***************************************************************************)
NoLast ==
    [idx |-> 0, loaded |-> Settings("", "", ""), requested |-> FALSE, done |-> FALSE,
     resp |-> NetworkError, result |-> heuristicResult(EssayItem)]

EstStart ==
    /\ est = [aiProvider |-> "null", apiKey |-> ""]
    /\ eOp = "none"
    /\ epc = "idle"
    /\ eInput = <<>>
    /\ eOutput = <<>>
    /\ eInflight = {}
    /\ eRequests = <<>>
    /\ eLast = NoLast

EstInit == syncStore \in SettingsStores /\ EstStart

EstIdle == syncStore = Settings("", "", "") /\ EstStart

\* estimatedAssignments.unshift(estimated)
unshift(arr, x) == <<x>> \o arr

\* estimatedAssignments.push(estimated)
push(arr, x) == Append(arr, x)

\* Where the call goes once the item at hand is done.
afterItem(out) ==
    IF eOp = "estimateAll" /\ Len(out) < Len(eInput) THEN "configure" ELSE "done"

StartEstimateAll(items) ==
    /\ epc = "idle"
    /\ eOp' = "estimateAll"
    /\ eInput' = items
    /\ epc' = "configure_all"
    /\ UNCHANGED <<syncStore, est, eOutput, eInflight, eRequests, eLast, estOthers>>

\* estimateAll's own await this.configure(), then the loop is entered.
ConfigureAll ==
    /\ epc = "configure_all"
    /\ est' = configure(est, syncStore)
    /\ epc' = IF eInput = <<>> THEN "done" ELSE "configure"
    /\ UNCHANGED <<syncStore, eOp, eInput, eOutput, eInflight, eRequests, eLast, estOthers>>

StartEstimateSingle(item) ==
    /\ epc = "idle"
    /\ eOp' = "estimateSingle"
    /\ eInput' = <<item>>
    /\ epc' = "configure"
    /\ UNCHANGED <<syncStore, est, eOutput, eInflight, eRequests, eLast, estOthers>>

\* estimateSingle up to its fetch: configure, decide, and either issue the
\* backend request or finish with the heuristic.
EstimateSingleConfigure ==
    /\ epc = "configure"
    /\ LET e2 == configure(est, syncStore)
           i  == Len(eOutput) + 1
           h  == heuristicResult(eInput[i])
       IN  /\ est' = e2
           /\ IF useAI(e2)
              THEN /\ eInflight' = eInflight \cup {i}
                   /\ eRequests' = Append(eRequests, i)
                   /\ eLast' = [idx |-> i, loaded |-> syncStore, requested |-> TRUE,
                                done |-> FALSE, resp |-> NetworkError, result |-> h]
                   /\ epc' = "await_backend"
                   /\ UNCHANGED eOutput
              ELSE /\ eOutput' = push(eOutput, h)
                   /\ eLast' = [idx |-> i, loaded |-> syncStore, requested |-> FALSE,
                                done |-> TRUE, resp |-> NetworkError, result |-> h]
                   /\ epc' = afterItem(eOutput')
                   /\ UNCHANGED <<eInflight, eRequests>>
    /\ UNCHANGED <<syncStore, eOp, eInput, estOthers>>

\* The backend answers (or the fetch rejects): the rest of estimateSingle.
BackendResponse(r) ==
    /\ epc = "await_backend"
    /\ LET i      == Len(eOutput) + 1
           result == aiResult(eInput[i], getAIEstimate(est.aiProvider, r))
       IN  /\ i \in eInflight
           /\ eInflight' = eInflight \ {i}
           /\ eLast' = [eLast EXCEPT !.done = TRUE, !.resp = r, !.result = result]
           /\ IF result.estimationMethod = "raised"
              THEN epc' = "threw" /\ UNCHANGED eOutput
              ELSE eOutput' = push(eOutput, result) /\ epc' = afterItem(eOutput')
    /\ UNCHANGED <<syncStore, est, eOp, eInput, eRequests, estOthers>>

\* OptionsController.saveSettings: chrome.storage.sync.set(settings).
\* It can happen at any await of a running call, any number of times.
SaveSettings(s) ==
    /\ epc \notin {"idle", "done", "threw"}
    /\ s # syncStore
    /\ syncStore' = s
    /\ UNCHANGED <<est, eOp, epc, eInput, eOutput, eInflight, eRequests, eLast, estOthers>>

EstNext ==
    \/ \E items \in ItemSeqs(MaxItems) : StartEstimateAll(items)
    \/ ConfigureAll
    \/ \E item \in EstItems : StartEstimateSingle(item)
    \/ EstimateSingleConfigure
    \/ \E r \in Responses : BackendResponse(r)
    \/ \E s \in SettingsStores : SaveSettings(s)

(***************************************************************************)
(* The three backend callers, each applied to one response.                *)
(***************************************************************************)
\* Two objects in a row: the greedy match runs from the first brace to the
\* last one.
TextTwoObjects == <<Tok("lbrace"), Tok("key"), NumTok(45), Tok("rbrace"), Tok("word"),
                    Tok("lbrace"), Tok("word"), Tok("rbrace")>>

ParseResponses ==
    {NetworkError}
    \cup { HttpResponse(status, content) :
             status \in {200, 204, 404, 500},
             content \in {NoContent} \cup {Content(t) : t \in SampleTexts \cup {TextTwoObjects}} }

ParseStart == pCaller = "none" /\ pOut = Returned("none", JSUndefined)

ParseInit == pResp \in ParseResponses /\ ParseStart

ParseIdle == pResp = NetworkError /\ ParseStart

CallOpenAI ==
    /\ pCaller = "none"
    /\ pCaller' = "openai"
    /\ pOut' = callOpenAI(pResp)
    /\ UNCHANGED <<pResp, parseOthers>>

CallAnthropic ==
    /\ pCaller = "none"
    /\ pCaller' = "anthropic"
    /\ pOut' = callAnthropic(pResp)
    /\ UNCHANGED <<pResp, parseOthers>>

CallOllama ==
    /\ pCaller = "none"
    /\ pCaller' = "local"
    /\ pOut' = callOllama(pResp)
    /\ UNCHANGED <<pResp, parseOthers>>

ParseNext == CallOpenAI \/ CallAnthropic \/ CallOllama

(***************************************************************************)
(* CanvasAPI: configure, request, getTodoItems and the two normalizers.    *)
(* A url is a sequence of parts; baseUrl is null or a url; apiToken is ""   *)
(* (null or empty), or a token the server accepts ("good") or rejects      *)
(* ("revoked").                                                            *)
(***************************************************************************)
MaxCalls == 2

NullUrl == [isNull |-> TRUE, parts |-> <<>>]
Url(parts) == [isNull |-> FALSE, parts |-> parts]

Unconfigured == [baseUrl |-> NullUrl, apiToken |-> ""]

\* baseUrl.replace(/\/+$/, '')
RECURSIVE stripTrailingSlashes(_)
stripTrailingSlashes(parts) ==
    IF parts # <<>> /\ parts[Len(parts)] = "/"
    THEN stripTrailingSlashes(SubSeq(parts, 1, Len(parts) - 1))
    ELSE parts

\* configure(baseUrl, apiToken)
canvasConfigure(baseUrl, apiToken) ==
    LET stripped == stripTrailingSlashes(baseUrl)
    IN  [baseUrl  |-> Url(IF \E k \in 1..Len(stripped) : stripped[k] = "/api/v1"
                          THEN stripped
                          ELSE Append(stripped, "/api/v1")),
         apiToken |-> apiToken]

\* if (!this.baseUrl || !this.apiToken) throw ...
notConfigured(a) == a.baseUrl.isNull \/ a.baseUrl.parts = <<>> \/ a.apiToken = ""

SampleUrls ==
    { <<>>, <<"https://canvas.example">>, <<"https://canvas.example", "/", "/">>,
      <<"https://canvas.example", "/api/v1">> }

\* What a request carrying the token can end with: 401 for a rejected token;
\* otherwise success, a failure status of the endpoint, or a 2xx whose body
\* is not a JSON array (response.json() or the normalizer throws).  The
\* fetch itself can always reject.
HttpOutcomes(token) ==
    IF token = "revoked" THEN {"401", "neterr"}
    ELSE {"200", "404", "500", "malformed", "neterr"}

causeOf(outcome) ==
    IF outcome = "401" THEN "auth"
    ELSE IF outcome = "neterr" THEN "network"
    ELSE "endpoint"

\* Upstream items, with the fields the normalizers read for the estimator.
PlannerItem(ptype, title, points, subs) ==
    [plannable_type |-> ptype, title |-> title, points_possible |-> points,
     submission_types |-> subs]

TodoItem(type, name, points, subs) ==
    [type |-> type, name |-> name, points_possible |-> points, submission_types |-> subs]

strAssignment == <<"a", "s", "s", "i", "g", "n", "m", "e", "n", "t">>
strUntitled   == <<"U", "n", "t", "i", "t", "l", "e", "d">>

\* submission_types || []
orEmptyArray(subs) == IF subs.isArray THEN subs ELSE SubmissionTypes(<<>>)

normalizePlannerItems(items) ==
    LET kept == SelectSeq(items, LAMBDA it : it.plannable_type \in {strAssignment, kwQuiz})
    IN  [i \in 1..Len(kept) |->
            AssignmentInput(IF kept[i].title # <<>> THEN kept[i].title ELSE kept[i].plannable_type,
                            kept[i].plannable_type,
                            kept[i].points_possible,
                            orEmptyArray(kept[i].submission_types))]

normalizeTodoItems(items) ==
    [i \in 1..Len(items) |->
        AssignmentInput(IF items[i].name # <<>> THEN items[i].name ELSE strUntitled,
                        IF items[i].type # <<>> THEN items[i].type ELSE strAssignment,
                        items[i].points_possible,
                        orEmptyArray(items[i].submission_types))]

PlannerPayloads ==
    { <<>>,
      << PlannerItem(strAssignment, <<"E", "s", "s", "a", "y", " ", "1">>, Points(20),
                     SubmissionTypes(<<"online_upload">>)) >>,
      << PlannerItem(kwQuiz, <<>>, NoPoints, NoSubmissionTypes),
         PlannerItem(<<"p", "l", "a", "n", "n", "e", "r", "_", "n", "o", "t", "e">>,
                     <<"T", "o", "d", "o">>, NoPoints, NoSubmissionTypes) >>,
      << PlannerItem(strAssignment, <<"E", "s", "s", "a", "y", " ", "1">>, Points(20),
                     SubmissionTypes(<<"online_upload">>)),
         PlannerItem(kwQuiz, <<>>, NoPoints, NoSubmissionTypes) >> }

TodoPayloads ==
    { <<>>,
      << TodoItem(<<"s", "u", "b", "m", "i", "t", "t", "i", "n", "g">>,
                  <<"H", "W", " ", "3">>, Points(10), SubmissionTypes(<<"online_text_entry">>)) >>,
      << TodoItem(<<>>, <<>>, NoPoints, NoSubmissionTypes) >> }

CanvasStart ==
    /\ cpc = "idle"
    /\ cHttp = <<>>
    /\ cCause = "none"
    /\ cError = "none"
    /\ cResult = <<>>
    /\ cCalls = 0

CanvasInit == api = Unconfigured /\ CanvasStart

CanvasIdle == api = Unconfigured /\ CanvasStart

CanvasConfigure(url, token) ==
    /\ cpc \in {"idle", "returned", "threw"}
    /\ api' = canvasConfigure(url, token)
    /\ UNCHANGED <<cpc, cHttp, cCause, cError, cResult, cCalls, canvasOthers>>

\* getTodoItems up to its first await.  The planner request is tried; when
\* the object is not configured it throws before any fetch, the catch calls
\* request for the todo endpoint, which throws the same way, to the caller.
GetTodoItems ==
    /\ cpc \in {"idle", "returned", "threw"}
    /\ cCalls < MaxCalls
    /\ cCalls' = cCalls + 1
    /\ cResult' = <<>>
    /\ IF notConfigured(api)
       THEN /\ cpc' = "threw"
            /\ cCause' = "config"
            /\ cError' = "not configured"
            /\ cHttp' = <<>>
       ELSE /\ cHttp' = <<"planner">>
            /\ cpc' = "await_planner"
            /\ cCause' = "none"
            /\ cError' = "none"
    /\ UNCHANGED <<api, canvasOthers>>

\* The planner request succeeds: its items are normalized and returned.
PlannerSucceeds(payload) ==
    /\ cpc = "await_planner"
    /\ "200" \in HttpOutcomes(api.apiToken)
    /\ cResult' = normalizePlannerItems(payload)
    /\ cpc' = "returned"
    /\ UNCHANGED <<api, cHttp, cCause, cError, cCalls, canvasOthers>>

\* A request that is sent again to the endpoint that failed.
PlannerFailsRetried(outcome) ==
    /\ cpc = "await_planner"
    /\ outcome \in HttpOutcomes(api.apiToken) \ {"200"}
    /\ cCause' = causeOf(outcome)
    /\ cHttp' = Append(cHttp, "planner")
    /\ cpc' = "await_todo"
    /\ UNCHANGED <<api, cError, cResult, cCalls, canvasOthers>>

\* The planner request fails, whatever the reason: the catch requests the
\* todo endpoint.
PlannerFails(outcome) ==
    /\ cpc = "await_planner"
    /\ outcome \in HttpOutcomes(api.apiToken) \ {"200"}
    /\ cCause' = causeOf(outcome)
    /\ cHttp' = Append(cHttp, "todo")
    /\ cpc' = "await_todo"
    /\ UNCHANGED <<api, cError, cResult, cCalls, canvasOthers>>

TodoSucceeds(payload) ==
    /\ cpc = "await_todo"
    /\ "200" \in HttpOutcomes(api.apiToken)
    /\ cResult' = normalizeTodoItems(payload)
    /\ cpc' = "returned"
    /\ UNCHANGED <<api, cHttp, cCause, cError, cCalls, canvasOthers>>

\* The error of the todo request is the one the caller gets.
TodoFails(outcome) ==
    /\ cpc = "await_todo"
    /\ outcome \in HttpOutcomes(api.apiToken) \ {"200"}
    /\ cError' = outcome
    /\ cpc' = "threw"
    /\ UNCHANGED <<api, cHttp, cCause, cResult, cCalls, canvasOthers>>

CanvasNext ==
    \/ \E url \in SampleUrls, token \in {"", "good", "revoked"} :
           CanvasConfigure(url, token)
    \/ GetTodoItems
    \/ \E payload \in PlannerPayloads : PlannerSucceeds(payload)
    \/ \E outcome \in {"401", "404", "500", "malformed", "neterr"} : PlannerFails(outcome)
    \/ \E payload \in TodoPayloads : TodoSucceeds(payload)
    \/ \E outcome \in {"401", "404", "500", "malformed", "neterr"} : TodoFails(outcome)

(***************************************************************************)
(* CanvasAPI.getUpcomingAssignments: the course listing, one assignments   *)
(* request per course in turn, and the final sort by due_at.               *)
(* A due_at is null, a date (a positive number of days), or a value        *)
(* new Date() cannot read (undefined, or an unparseable string).           *)
(***************************************************************************)
DueNull    == [kind |-> "null", t |-> 0]
DueInvalid == [kind |-> "invalid", t |-> 0]
DueOn(t)   == [kind |-> "date", t |-> t]

\* new Date(due_at) as the number the subtraction sees: null reads as the
\* epoch, an unreadable value as NaN.
NaN == [nan |-> TRUE, n |-> 0]
Num(n) == [nan |-> FALSE, n |-> n]
dateValue(due) == IF due.kind = "invalid" THEN NaN ELSE Num(due.t)

\* new Date(a.due_at) - new Date(b.due_at)
compareDue(a, b) ==
    LET x == dateValue(a.due_at)
        y == dateValue(b.due_at)
    IN  IF x.nan \/ y.nan THEN NaN ELSE Num(x.n - y.n)

\* Array.prototype.sort takes a NaN from the comparator as +0.
sortSign(a, b) ==
    LET c == compareDue(a, b)
    IN  IF c.nan THEN 0 ELSE IF c.n < 0 THEN -1 ELSE IF c.n > 0 THEN 1 ELSE 0

\* A comparator is consistent for the values of a list when "compares
\* equal" and "compares less" are transitive on them; sort is specified only
\* for consistent comparators.
consistentComparator(list) ==
    \A i, j, k \in 1..Len(list) :
        /\ sortSign(list[i], list[j]) = 0 /\ sortSign(list[j], list[k]) = 0
               => sortSign(list[i], list[k]) = 0
        /\ sortSign(list[i], list[j]) < 0 /\ sortSign(list[j], list[k]) < 0
               => sortSign(list[i], list[k]) < 0
        /\ sortSign(list[i], list[j]) < 0 /\ sortSign(list[j], list[k]) = 0
               => sortSign(list[i], list[k]) < 0
        /\ sortSign(list[i], list[j]) = 0 /\ sortSign(list[j], list[k]) < 0
               => sortSign(list[i], list[k]) < 0

\* Insert x after the elements it does not compare less than (stable).
RECURSIVE insertStable(_, _)
insertStable(sorted, x) ==
    IF sorted = <<>> THEN <<x>>
    ELSE IF sortSign(x, sorted[Len(sorted)]) < 0
         THEN Append(insertStable(SubSeq(sorted, 1, Len(sorted) - 1), x), sorted[Len(sorted)])
         ELSE Append(sorted, x)

RECURSIVE stableSort(_)
stableSort(list) ==
    IF list = <<>> THEN <<>>
    ELSE insertStable(stableSort(SubSeq(list, 1, Len(list) - 1)), list[Len(list)])

removeAt(list, i) == SubSeq(list, 1, i - 1) \o SubSeq(list, i + 1, Len(list))

RECURSIVE permutations(_)
permutations(list) ==
    IF list = <<>> THEN {<<>>}
    ELSE UNION { { <<list[i]>> \o rest : rest \in permutations(removeAt(list, i)) } :
                 i \in 1..Len(list) }

\* assignments.sort(...): the stable sort when the comparator is consistent,
\* otherwise an order the engine chooses.
sortOutcomes(list) ==
    IF consistentComparator(list) THEN {stableSort(list)} ELSE permutations(list)

Course(id, name) == [id |-> id, name |-> name]

CourseAssignment(id, due_at) ==
    [id |-> id, due_at |-> due_at, courseName |-> "", courseId |-> 0]

\* A map that leaves the items as they came.
enrichUntagged(items, course) == items

\* courseAssignments.map(a => ({...a, courseName: course.name, courseId: course.id}))
enrich(items, course) ==
    [i \in 1..Len(items) |->
        [items[i] EXCEPT !.courseName = course.name, !.courseId = course.id]]

CourseListings ==
    { <<>>,
      << Course(1, "Math") >>,
      << Course(1, "Math"), Course(2, "Art") >>,
      << Course(1, "Math"), Course(2, "Art"), Course(3, "Bio") >> }

CoursePayloads ==
    { <<>>,
      << CourseAssignment(1, DueOn(20)), CourseAssignment(2, DueNull) >>,
      << CourseAssignment(3, DueOn(10)) >>,
      << CourseAssignment(4, DueInvalid) >> }

UpcomingStart ==
    /\ upc = "idle"
    /\ uCourses = <<>>
    /\ uIdx = 0
    /\ uAssignments = <<>>
    /\ uLog = <<>>
    /\ uResult = <<>>

UpcomingIdle == UpcomingStart

\* getUpcomingAssignments up to its first await: getCourses calls request,
\* which throws at once on an object that is not configured.
GetUpcomingAssignments ==
    /\ upc \in {"idle", "returned", "threw"}
    /\ upc' = IF notConfigured(api) THEN "threw" ELSE "await_courses"
    /\ uCourses' = <<>>
    /\ uIdx' = 0
    /\ uAssignments' = <<>>
    /\ uLog' = <<>>
    /\ uResult' = <<>>
    /\ UNCHANGED <<canvasVars, upcomingOthers>>

\* The listing fails: the error reaches the caller.
CoursesFail(outcome) ==
    /\ upc = "await_courses"
    /\ outcome \in HttpOutcomes(api.apiToken) \ {"200"}
    /\ upc' = "threw"
    /\ UNCHANGED <<uCourses, uIdx, uAssignments, uLog, uResult, canvasVars, upcomingOthers>>

\* The listing returns.  With no course the loop is skipped and the empty
\* array is sorted and returned; otherwise the first course is requested.
CoursesReturn(courses) ==
    /\ upc = "await_courses"
    /\ "200" \in HttpOutcomes(api.apiToken)
    /\ uCourses' = courses
    /\ IF courses = <<>>
       THEN upc' = "returned" /\ uIdx' = 0
       ELSE upc' = "await_assignments" /\ uIdx' = 1
    /\ UNCHANGED <<uAssignments, uLog, uResult, canvasVars, upcomingOthers>>

\* After a course has been handled: the next course is requested, or the
\* array is sorted and returned.
afterCourse(assignments) ==
    IF uIdx < Len(uCourses)
    THEN /\ upc' = "await_assignments"
         /\ uIdx' = uIdx + 1
         /\ uResult' = uResult
    ELSE /\ upc' = "returned"
         /\ uIdx' = uIdx
         /\ \E sorted \in sortOutcomes(assignments) : uResult' = sorted

\* The assignments of the course arrive: they are tagged and pushed.
CourseAssignmentsReturn(payload) ==
    /\ upc = "await_assignments"
    /\ "200" \in HttpOutcomes(api.apiToken)
    /\ uAssignments' = uAssignments \o enrich(payload, uCourses[uIdx])
    /\ uLog' = Append(uLog, [ok |-> TRUE, items |-> payload])
    /\ afterCourse(uAssignments \o enrich(payload, uCourses[uIdx]))
    /\ UNCHANGED <<uCourses, canvasVars, upcomingOthers>>

\* The request for the course fails (or throws because the object has lost
\* its configuration): the catch logs and the loop goes on.
CourseAssignmentsFail(outcome) ==
    /\ upc = "await_assignments"
    /\ \/ notConfigured(api)
       \/ outcome \in HttpOutcomes(api.apiToken) \ {"200"}
    /\ uLog' = Append(uLog, [ok |-> FALSE, items |-> <<>>])
    /\ afterCourse(uAssignments)
    /\ UNCHANGED <<uCourses, uAssignments, canvasVars, upcomingOthers>>

\* configure can be called on the object at any time.
UpcomingConfigure(url, token) ==
    /\ api' = canvasConfigure(url, token)
    /\ UNCHANGED <<cpc, cHttp, cCause, cError, cResult, cCalls, upcomingVars, upcomingOthers>>

UpcomingNext ==
    \/ \E url \in SampleUrls, token \in {"", "good", "revoked"} : UpcomingConfigure(url, token)
    \/ GetUpcomingAssignments
    \/ \E outcome \in {"401", "404", "500", "malformed", "neterr"} : CoursesFail(outcome)
    \/ \E courses \in CourseListings : CoursesReturn(courses)
    \/ \E payload \in CoursePayloads : CourseAssignmentsReturn(payload)
    \/ \E outcome \in {"401", "404", "500", "malformed", "neterr"} : CourseAssignmentsFail(outcome)

(***************************************************************************)
(* Background service worker, popup, and the cache they share.             *)
(* A handler run is one invocation of the alarm listener, of a message     *)
(* handler, or of the popup's loadAssignments; two runs can be in progress *)
(* at once, each standing at one of its awaits.  Every value written to    *)
(* the cache carries the number of the write that put it there (by).       *)
(* Time is observed at the instants Epoch, then 4, 5, 9, 10, ... minutes   *)
(* later: just before and exactly at each multiple of maxCacheAge.         *)
(***************************************************************************)
MaxCacheAge == 5
TwentyFourHours == 1440
MaxTicks == 2
MaxRuns == 2

\* Date.now() when the model starts: further from 0 than maxCacheAge.
Epoch == MaxCacheAge + 1

Handlers == {"h1", "h2"}

NoDate == [has |-> FALSE, t |-> 0]
DateAt(t) == [has |-> TRUE, t |-> t]

\* An item as the worker handles it: its identity, its due date, and
\* whether the estimator has added its estimate.
RawItem(id, dueDate) == [id |-> id, dueDate |-> dueDate, estimated |-> FALSE]

\* timeEstimator.estimateAll(rawAssignments): one estimated item per raw
\* item, in order.
estimateAllResult(raw) == [i \in 1..Len(raw) |-> [raw[i] EXCEPT !.estimated = TRUE]]

FetchPayloads ==
    { <<>>,
      << RawItem("soon", DateAt(Epoch + 100)), RawItem("past", DateAt(1)),
         RawItem("undated", NoDate), RawItem("nextday", DateAt(Epoch + TwentyFourHours)),
         RawItem("far", DateAt(Epoch + 5000)) >> }

Settings3(url, token, show) ==
    [canvasUrl |-> url, apiToken |-> token, showNotifications |-> show]

\* After install: showNotifications is set, canvasUrl and apiToken are not.
InstalledSettings == Settings3("", "", TRUE)

CanvasSettingsValues ==
    { InstalledSettings,
      Settings3("https://canvas.example", "tok", TRUE),
      Settings3("https://canvas.example", "tok", FALSE) }

\* if (!settings.canvasUrl || !settings.apiToken)
credentialsMissing(settings) == settings.canvasUrl = "" \/ settings.apiToken = ""

\* The two keys of the cache: each absent, or a value and the run that
\* wrote it.
AbsentItems == [has |-> FALSE, v |-> <<>>, by |-> 0]
AbsentStamp == [has |-> FALSE, v |-> 0, by |-> 0]

EmptyStore == [cachedAssignments |-> AbsentItems, lastUpdated |-> AbsentStamp]

\* A set that names only cachedAssignments.
storageSetItemsOnly(store, assignments, t, by) ==
    [store EXCEPT !.cachedAssignments = [has |-> TRUE, v |-> assignments, by |-> by]]

\* chrome.storage.local.set({cachedAssignments: ..., lastUpdated: Date.now()})
storageSet(store, assignments, t, by) ==
    [cachedAssignments |-> [has |-> TRUE, v |-> assignments, by |-> by],
     lastUpdated       |-> [has |-> TRUE, v |-> t, by |-> by]]

\* A failure path that clears the cache.
storeClearedOnFailure(store) == EmptyStore

\* The early return and the catch block of a pass: the cache is not touched.
storeAfterFailure(store) == store

\* cached.lastUpdated || 0
lastUpdatedOrZero(stamp) == IF stamp.has THEN stamp.v ELSE 0

\* The freshness test with <= in place of <.
cacheIsFreshInclusive(cached, t) ==
    /\ cached.cachedAssignments.has
    /\ t - lastUpdatedOrZero(cached.lastUpdated) <= MaxCacheAge

\* cached.cachedAssignments && cacheAge < maxCacheAge
cacheIsFresh(cached, t) ==
    /\ cached.cachedAssignments.has
    /\ t - lastUpdatedOrZero(cached.lastUpdated) < MaxCacheAge

\* fresh.cachedAssignments || []
orEmptyList(items) == IF items.has THEN items ELSE [has |-> TRUE, v |-> <<>>, by |-> 0]

\* dueDate - now < twentyFourHours && dueDate > now; an absent date gives
\* an invalid Date, for which both comparisons are false.
isUrgentOrOverdue(a, t) == a.dueDate.has /\ a.dueDate.t - t < TwentyFourHours

isUrgent(a, t) == a.dueDate.has /\ a.dueDate.t - t < TwentyFourHours /\ a.dueDate.t > t

urgent(assignments, t) == SelectSeq(assignments, LAMBDA a : isUrgent(a, t))

NoResponse ==
    [type |-> "none", items |-> AbsentItems, fromCache |-> FALSE, lastUpdated |-> AbsentStamp]

\* { success: true }
SuccessResponse == [NoResponse EXCEPT !.type = "success"]

\* { success: false } of a connection test
FailureResponse == [NoResponse EXCEPT !.type = "failure"]

\* the enriched item of ESTIMATE_SINGLE
EstimateResponse == [NoResponse EXCEPT !.type = "estimate"]

\* { error: 'Unknown message type' }
ErrorResponse == [NoResponse EXCEPT !.type = "error"]

\* { assignments, fromCache, lastUpdated }
AssignmentsResponse(items, fromCache, stamp) ==
    [type |-> "assignments", items |-> items, fromCache |-> fromCache, lastUpdated |-> stamp]

\* the object storage.local.get resolved to
CachedResponse(cached) ==
    [type |-> "cached", items |-> cached.cachedAssignments, fromCache |-> FALSE,
     lastUpdated |-> cached.lastUpdated]

\* The age of the snapshot a getAssignments call found: none when it has
\* not read or found no lastUpdated.
NoAge == [has |-> FALSE, minutes |-> 0]
Age(stamp, t) == IF stamp.has THEN [has |-> TRUE, minutes |-> t - stamp.v] ELSE NoAge

IdleHandler ==
    [kind |-> "none", pc |-> "idle", raw |-> <<>>, foundAge |-> NoAge,
     outcome |-> "none",
     fetched |-> FALSE, calledEstimator |-> FALSE, wrote |-> FALSE, notified |-> FALSE,
     resp |-> NoResponse]

WorkerStart ==
    /\ canvasSettings = InstalledSettings
    /\ localStore = EmptyStore
    /\ notifications = <<>>
    /\ runs = 0
    /\ writes = 0
    /\ handler = [h \in Handlers |-> IdleHandler]

WorkerInit == now = Epoch /\ WorkerStart

WorkerIdle == now = Epoch /\ WorkerStart

\* What the caller does when the pass has ended: the alarm listener and the
\* popup are done, REFRESH_ASSIGNMENTS replies, getAssignments reads the
\* cache again.
passEnd(rec, outcome) ==
    IF rec.kind = "REFRESH_ASSIGNMENTS"
    THEN [rec EXCEPT !.outcome = outcome, !.raw = <<>>, !.pc = "done", !.resp = SuccessResponse]
    ELSE IF rec.kind = "GET_ASSIGNMENTS"
    THEN [rec EXCEPT !.outcome = outcome, !.raw = <<>>, !.pc = "reread"]
    ELSE [rec EXCEPT !.outcome = outcome, !.raw = <<>>, !.pc = "done"]

\* A run that has just been started.
begun(kind) == [IdleHandler EXCEPT !.kind = kind]

canBegin(h) == handler[h].pc \in {"idle", "done"} /\ runs < MaxRuns

\* refreshAssignmentsInBackground (and the popup's loadAssignments) up to
\* the call of getTodoItems: storage.sync.get(['canvasUrl', 'apiToken'])
\* resolves; without both the pass returns.
passStart(rec) ==
    IF credentialsMissing(canvasSettings)
    THEN passEnd(rec, "skipped")
    ELSE [rec EXCEPT !.pc = "fetch", !.fetched = TRUE]

storeAtPassStart ==
    IF credentialsMissing(canvasSettings) THEN storeAfterFailure(localStore) ELSE localStore

\* The alarm fires: refreshAssignmentsInBackground is called.
OnAlarm(h) ==
    /\ canBegin(h)
    /\ runs' = runs + 1
    /\ handler' = [handler EXCEPT ![h] = passStart(begun("alarm"))]
    /\ localStore' = storeAtPassStart
    /\ UNCHANGED <<now, canvasSettings, notifications, writes, workerOthers>>

OnRefreshAssignments(h) ==
    /\ canBegin(h)
    /\ runs' = runs + 1
    /\ handler' = [handler EXCEPT ![h] = passStart(begun("REFRESH_ASSIGNMENTS"))]
    /\ localStore' = storeAtPassStart
    /\ UNCHANGED <<now, canvasSettings, notifications, writes, workerOthers>>

\* The popup opens: loadAssignments is called.
PopupLoadAssignments(h) ==
    /\ canBegin(h)
    /\ runs' = runs + 1
    /\ handler' = [handler EXCEPT ![h] = passStart(begun("popup"))]
    /\ localStore' = storeAtPassStart
    /\ UNCHANGED <<now, canvasSettings, notifications, writes, workerOthers>>

\* getAssignments up to the resolution of its first storage.local.get: a
\* fresh snapshot is returned, otherwise a pass is started.
OnGetAssignments(h) ==
    /\ canBegin(h)
    /\ runs' = runs + 1
    /\ handler' = [handler EXCEPT ![h] =
                      IF cacheIsFresh(localStore, now)
                      THEN [begun("GET_ASSIGNMENTS") EXCEPT
                               !.foundAge = Age(localStore.lastUpdated, now),
                               !.pc = "done",
                               !.resp = AssignmentsResponse(localStore.cachedAssignments,
                                                            TRUE, localStore.lastUpdated)]
                      ELSE [begun("GET_ASSIGNMENTS") EXCEPT
                               !.foundAge = Age(localStore.lastUpdated, now),
                               !.pc = "settings"]]
    /\ UNCHANGED <<now, canvasSettings, localStore, notifications, writes, workerOthers>>

\* The pass getAssignments started reads the settings.
GetAssignmentsRefresh(h) ==
    /\ handler[h].pc = "settings"
    /\ handler' = [handler EXCEPT ![h] = passStart(@)]
    /\ localStore' = storeAtPassStart
    /\ UNCHANGED <<now, canvasSettings, notifications, runs, writes, workerOthers>>

\* GET_CACHED_ASSIGNMENTS: storage.local.get resolves and is the reply.
OnGetCachedAssignments(h) ==
    /\ canBegin(h)
    /\ runs' = runs + 1
    /\ handler' = [handler EXCEPT ![h] =
                      [begun("GET_CACHED_ASSIGNMENTS") EXCEPT
                          !.pc = "done", !.resp = CachedResponse(localStore)]]
    /\ UNCHANGED <<now, canvasSettings, localStore, notifications, writes, workerOthers>>

\* getTodoItems resolves: estimateAll is called (the popup stops on an
\* empty list).
FetchReturns(h, payload) ==
    /\ handler[h].pc = "fetch"
    /\ handler' = [handler EXCEPT ![h] =
                      IF @.kind = "popup" /\ payload = <<>>
                      THEN passEnd(@, "empty")
                      ELSE [@ EXCEPT !.pc = "estimate", !.raw = payload,
                                     !.calledEstimator = TRUE]]
    /\ UNCHANGED <<now, canvasSettings, localStore, notifications, runs, writes, workerOthers>>

\* getTodoItems rejects: the catch block logs.
\* A failure of the fetch that no try/catch of the pass holds back: the
\* promise of handleMessage rejects and sendResponse is not called.
FetchFailsUncaught(h) ==
    /\ handler[h].pc = "fetch"
    /\ handler' = [handler EXCEPT ![h] = [@ EXCEPT !.outcome = "failed", !.raw = <<>>,
                                                   !.pc = "rejected"]]
    /\ localStore' = storeAfterFailure(localStore)
    /\ UNCHANGED <<now, canvasSettings, notifications, runs, writes, workerOthers>>

FetchFails(h) ==
    /\ handler[h].pc = "fetch"
    /\ handler' = [handler EXCEPT ![h] = passEnd(@, "failed")]
    /\ localStore' = storeAfterFailure(localStore)
    /\ UNCHANGED <<now, canvasSettings, notifications, runs, writes, workerOthers>>

\* estimateAll resolves: both cache keys are set in one call; the worker
\* goes on to checkForUrgentAssignments, the popup is done.
EstimateReturns(h) ==
    /\ handler[h].pc = "estimate"
    /\ writes' = writes + 1
    /\ localStore' = storageSet(localStore, estimateAllResult(handler[h].raw), now,
                                writes + 1)
    /\ handler' = [handler EXCEPT ![h] =
                      IF @.kind = "popup"
                      THEN passEnd([@ EXCEPT !.wrote = TRUE], "stored")
                      ELSE [@ EXCEPT !.wrote = TRUE, !.pc = "notify"]]
    /\ UNCHANGED <<now, canvasSettings, notifications, runs, workerOthers>>

\* estimateAll rejects: the catch block logs.
EstimateThrows(h) ==
    /\ handler[h].pc = "estimate"
    /\ handler' = [handler EXCEPT ![h] = passEnd(@, "failed")]
    /\ localStore' = storeAfterFailure(localStore)
    /\ UNCHANGED <<now, canvasSettings, notifications, runs, writes, workerOthers>>

\* checkForUrgentAssignments once storage.sync.get(['showNotifications'])
\* has resolved; the pass ends.
CheckForUrgentAssignments(h) ==
    /\ handler[h].pc = "notify"
    /\ LET notify == /\ canvasSettings.showNotifications
                     /\ Len(urgent(estimateAllResult(handler[h].raw), now)) > 0
       IN  /\ notifications' =
                  IF notify
                  THEN Append(notifications,
                              Len(urgent(estimateAllResult(handler[h].raw), now)))
                  ELSE notifications
           /\ handler' = [handler EXCEPT ![h] = passEnd([@ EXCEPT !.notified = notify], "stored")]
    /\ UNCHANGED <<now, canvasSettings, localStore, runs, writes, workerOthers>>

\* getAssignments once its second storage.local.get has resolved.
GetAssignmentsReread(h) ==
    /\ handler[h].pc = "reread"
    /\ handler' = [handler EXCEPT ![h].pc = "done",
                                  ![h].resp = AssignmentsResponse(
                                                  orEmptyList(localStore.cachedAssignments),
                                                  FALSE, localStore.lastUpdated)]
    /\ UNCHANGED <<now, canvasSettings, localStore, notifications, runs, writes, workerOthers>>

\* The options page saves the Canvas settings.
SaveCanvasSettings(settings) ==
    /\ settings # canvasSettings
    /\ canvasSettings' = settings
    /\ UNCHANGED <<now, localStore, notifications, runs, writes, handler, workerOthers>>

\* The debug panel removes both cache keys (the options page clears the
\* whole store).
ClearCache ==
    /\ localStore # EmptyStore
    /\ localStore' = EmptyStore
    /\ UNCHANGED <<now, canvasSettings, notifications, runs, writes, handler, workerOthers>>

\* ESTIMATE_SINGLE: a new TimeEstimator, estimateSingle is awaited.
OnEstimateSingle(h) ==
    /\ canBegin(h)
    /\ runs' = runs + 1
    /\ handler' = [handler EXCEPT ![h] =
                      [begun("ESTIMATE_SINGLE") EXCEPT !.pc = "estimate_single",
                                                       !.calledEstimator = TRUE]]
    /\ UNCHANGED <<now, canvasSettings, localStore, notifications, writes, workerOthers>>

\* estimateSingle resolves, with the backend's minutes or, the backend
\* having failed, with the heuristic ones: the item is the reply.
EstimateSingleReturns(h, method) ==
    /\ handler[h].pc = "estimate_single"
    /\ handler' = [handler EXCEPT ![h] = [@ EXCEPT !.pc = "done", !.outcome = method,
                                                   !.resp = EstimateResponse]]
    /\ UNCHANGED <<now, canvasSettings, localStore, notifications, runs, writes, workerOthers>>

\* TEST_CONNECTION: testCanvasConnection configures a client and awaits
\* testConnection.
OnTestConnection(h) ==
    /\ canBegin(h)
    /\ runs' = runs + 1
    /\ handler' = [handler EXCEPT ![h] =
                      [begun("TEST_CONNECTION") EXCEPT !.pc = "test", !.fetched = TRUE]]
    /\ UNCHANGED <<now, canvasSettings, localStore, notifications, writes, workerOthers>>

\* testConnection resolves to true or, its request having failed, to false.
TestConnectionReturns(h, isConnected) ==
    /\ handler[h].pc = "test"
    /\ handler' = [handler EXCEPT ![h] =
                      [@ EXCEPT !.pc = "done",
                                !.outcome = IF isConnected THEN "connected" ELSE "failed",
                                !.resp = IF isConnected THEN SuccessResponse
                                         ELSE FailureResponse]]
    /\ UNCHANGED <<now, canvasSettings, localStore, notifications, runs, writes, workerOthers>>

\* The default branch of handleMessage.
OnUnknownMessage(h) ==
    /\ canBegin(h)
    /\ runs' = runs + 1
    /\ handler' = [handler EXCEPT ![h] =
                      [begun("unknown") EXCEPT !.pc = "done", !.resp = ErrorResponse]]
    /\ UNCHANGED <<now, canvasSettings, localStore, notifications, writes, workerOthers>>

\* The instant that follows instant t.
nextInstant(t) ==
    IF (t - Epoch) % MaxCacheAge = 0 THEN t + MaxCacheAge - 1 ELSE t + 1

\* The number of instants passed since the start.
ticksAt(t) == 2 * ((t - Epoch) \div MaxCacheAge) + (IF (t - Epoch) % MaxCacheAge = 0 THEN 0 ELSE 1)

Tick ==
    /\ ticksAt(now) < MaxTicks
    /\ now' = nextInstant(now)
    /\ UNCHANGED <<canvasSettings, localStore, notifications, runs, writes, handler, workerOthers>>

WorkerNext ==
    \/ \E h \in Handlers : OnAlarm(h)
    \/ \E h \in Handlers : OnRefreshAssignments(h)
    \/ \E h \in Handlers : OnGetAssignments(h)
    \/ \E h \in Handlers : OnGetCachedAssignments(h)
    \/ \E h \in Handlers : PopupLoadAssignments(h)
    \/ \E h \in Handlers : GetAssignmentsRefresh(h)
    \/ \E h \in Handlers, payload \in FetchPayloads : FetchReturns(h, payload)
    \/ \E h \in Handlers : FetchFails(h)
    \/ \E h \in Handlers : EstimateReturns(h)
    \/ \E h \in Handlers : EstimateThrows(h)
    \/ \E h \in Handlers : CheckForUrgentAssignments(h)
    \/ \E h \in Handlers : GetAssignmentsReread(h)
    \/ \E settings \in CanvasSettingsValues : SaveCanvasSettings(settings)
    \/ ClearCache
    \/ Tick

\* The worker with every message type, and what it awaits settling in the
\* end.
MessagesNext ==
    \/ \E h \in Handlers : OnRefreshAssignments(h)
    \/ \E h \in Handlers : OnGetAssignments(h)
    \/ \E h \in Handlers : OnGetCachedAssignments(h)
    \/ \E h \in Handlers : OnEstimateSingle(h)
    \/ \E h \in Handlers : OnTestConnection(h)
    \/ \E h \in Handlers : OnUnknownMessage(h)
    \/ \E h \in Handlers : GetAssignmentsRefresh(h)
    \/ \E h \in Handlers, payload \in FetchPayloads : FetchReturns(h, payload)
    \/ \E h \in Handlers : FetchFails(h)
    \/ \E h \in Handlers : EstimateReturns(h)
    \/ \E h \in Handlers : EstimateThrows(h)
    \/ \E h \in Handlers : CheckForUrgentAssignments(h)
    \/ \E h \in Handlers : GetAssignmentsReread(h)
    \/ \E h \in Handlers, method \in {"ai", "heuristic"} : EstimateSingleReturns(h, method)
    \/ \E h \in Handlers, isConnected \in BOOLEAN : TestConnectionReturns(h, isConnected)
    \/ \E settings \in CanvasSettingsValues : SaveCanvasSettings(settings)

\* What a handler does once the promise it awaits has settled.
Continue(h) ==
    \/ GetAssignmentsRefresh(h)
    \/ \E payload \in FetchPayloads : FetchReturns(h, payload)
    \/ FetchFails(h)
    \/ EstimateReturns(h)
    \/ EstimateThrows(h)
    \/ CheckForUrgentAssignments(h)
    \/ GetAssignmentsReread(h)
    \/ \E method \in {"ai", "heuristic"} : EstimateSingleReturns(h, method)
    \/ \E isConnected \in BOOLEAN : TestConnectionReturns(h, isConnected)

(***************************************************************************)
(* Specification of the scorer: an item is chosen, then categorized and    *)
(* estimated, the estimate being asked for twice.                          *)
(***************************************************************************)
HeurStart ==
    /\ hCategory = "unset"
    /\ hCalls = 0
    /\ hMinutes = 0
    /\ hAgain = 0

HeurInit == hItem \in HeurItems /\ HeurStart

HeurIdle == hItem = EssayItem /\ HeurStart

HCategorize ==
    /\ hCategory = "unset"
    /\ hCategory' = categorizeAssignment(hItem)
    /\ UNCHANGED <<hItem, hCalls, hMinutes, hAgain, heurOthers>>

HEstimate ==
    /\ hCalls = 0
    /\ hMinutes' = getHeuristicEstimate(hItem)
    /\ hCalls' = 1
    /\ UNCHANGED <<hItem, hCategory, hAgain, heurOthers>>

HEstimateAgain ==
    /\ hCalls = 1
    /\ hAgain' = getHeuristicEstimate(hItem)
    /\ hCalls' = 2
    /\ UNCHANGED <<hItem, hCategory, hMinutes, heurOthers>>

HeurNext == HCategorize \/ HEstimate \/ HEstimateAgain

(***************************************************************************)
(* The options page (save, reset, export, import), the onInstalled         *)
(* listener and the refresh alarm.  A key of the store, or of a settings   *)
(* file, is held with a value or missing.                                  *)
(***************************************************************************)
RefreshIntervalMinutes == 30

Missing == [has |-> FALSE, v |-> ""]
Held(v) == [has |-> TRUE, v |-> v]
MissingNumber == [has |-> FALSE, v |-> 0]

\* The keys of a settings object; exportDate and version are only in files.
SettingsObject(token, openaiKey, anthropicKey, provider, interval, date, version) ==
    [apiToken |-> token, openaiApiKey |-> openaiKey, anthropicApiKey |-> anthropicKey,
     aiProvider |-> provider, refreshInterval |-> interval,
     exportDate |-> date, version |-> version]

ClearedStore ==
    SettingsObject(Missing, Missing, Missing, Missing, MissingNumber, MissingNumber, Missing)

NoAlarm == MissingNumber

\* chrome.storage.sync.set(items): the keys of items are written, the
\* other keys of the store stay.
storageSyncSet(store, items) ==
    [k \in DOMAIN store |-> IF items[k].has THEN items[k] ELSE store[k]]

\* An export that forgets to delete the Canvas token.
exportSettingsKeepingToken(store, date) ==
    [store EXCEPT !.exportDate = Held(date), !.version = Held("1.0.0"),
                  !.openaiApiKey = Missing, !.anthropicApiKey = Missing]

\* exportSettings: the store spread into an object with exportDate and
\* version, then the three credential keys deleted.
exportSettings(store, date) ==
    [store EXCEPT !.exportDate = Held(date), !.version = Held("1.0.0"),
                  !.apiToken = Missing, !.openaiApiKey = Missing,
                  !.anthropicApiKey = Missing]

\* importSettings once the file is parsed: a file without version is
\* refused; exportDate and version are deleted and the rest is set.
importSettings(store, data) ==
    IF ~data.version.has THEN store
    ELSE storageSyncSet(store, [data EXCEPT !.exportDate = MissingNumber, !.version = Missing])

\* What the form of the options page holds when Save is pressed.
FormValues ==
    { SettingsObject(Held(token), Held(openaiKey), Held(""), Held(provider), Held(interval),
                     MissingNumber, Missing) :
        token \in {"", "t1"}, openaiKey \in {"", "o1"}, provider \in {"none", "openai"},
        interval \in {RefreshIntervalMinutes, 60} }

\* Settings files that are not exports of this page: one edited to carry a
\* token, one without a version.
ForeignFiles ==
    { SettingsObject(Held("t9"), Missing, Missing, Held("openai"), Held(60),
                     Held(1), Held("1.0.0")),
      SettingsObject(Held("t9"), Missing, Missing, Missing, MissingNumber,
                     MissingNumber, Missing) }

ExportDates == {1, 2}

OptionsStart ==
    /\ oStore = ClearedStore
    /\ oAlarm = NoAlarm
    /\ oExport = ClearedStore
    /\ oOp = "none"

OptionsIdle == OptionsStart

\* onInstalled: the alarm is created with the constant period; on a first
\* install the default settings are set.
OnInstalled(reason) ==
    /\ reason = "install" <=> oOp = "none"
    /\ oAlarm' = Held(RefreshIntervalMinutes)
    /\ oStore' = IF reason = "install"
                 THEN storageSyncSet(oStore,
                          [ClearedStore EXCEPT !.refreshInterval = Held(RefreshIntervalMinutes),
                                               !.aiProvider = Held("openai")])
                 ELSE oStore
    /\ oOp' = reason
    /\ UNCHANGED <<oExport, optionsOthers>>

\* saveSettings / handleSave: the form is set, the alarm cleared and
\* created again with the form's interval.
OptionsSave(form) ==
    /\ oOp # "none"
    /\ oStore' = storageSyncSet(oStore, form)
    /\ oAlarm' = form.refreshInterval
    /\ oOp' = "save"
    /\ UNCHANGED <<oExport, optionsOthers>>

\* handleReset: chrome.storage.sync.clear().
OptionsReset ==
    /\ oOp # "none"
    /\ oStore' = ClearedStore
    /\ oOp' = "reset"
    /\ UNCHANGED <<oAlarm, oExport, optionsOthers>>

OptionsExport(date) ==
    /\ oOp # "none"
    /\ oExport' = exportSettings(oStore, date)
    /\ oOp' = "export"
    /\ UNCHANGED <<oStore, oAlarm, optionsOthers>>

\* The file chosen is the last export of the page.
OptionsImportExport ==
    /\ oOp # "none"
    /\ oExport.version.has
    /\ oStore' = importSettings(oStore, oExport)
    /\ oOp' = "import"
    /\ UNCHANGED <<oAlarm, oExport, optionsOthers>>

\* The file chosen is another one.
OptionsImportFile(file) ==
    /\ oOp # "none"
    /\ oStore' = importSettings(oStore, file)
    /\ oOp' = "import file"
    /\ UNCHANGED <<oAlarm, oExport, optionsOthers>>

OptionsNext ==
    \/ \E reason \in {"install", "update"} : OnInstalled(reason)
    \/ \E form \in FormValues : OptionsSave(form)
    \/ OptionsReset
    \/ \E date \in ExportDates : OptionsExport(date)
    \/ OptionsImportExport
    \/ \E file \in ForeignFiles : OptionsImportFile(file)

(***************************************************************************)
(* helpers.debounce: the closure variable timeout, the calls of the        *)
(* returned function and the timer task.  A timer runs at its due time or  *)
(* later, never before.                                                    *)
(***************************************************************************)
DebounceWait == 2
MaxClock == 6
MaxDebounceCalls == 3

DebounceArgs == {"a", "b"}

NoTimer == [set |-> FALSE, due |-> 0, args |-> "a"]
NoCall == [has |-> FALSE, at |-> 0, args |-> "a"]

\* A timer that is due at once.
setTimeoutNoWait(t, wait) == t

\* setTimeout(later, wait): when the timer is due.
setTimeoutDue(t, wait) == t + wait

DebounceStart ==
    /\ dClock = 0
    /\ dTimer = NoTimer
    /\ dLast = NoCall
    /\ dSince = 0
    /\ dInvoked = <<>>
    /\ dCalls = 0

DebounceIdle == DebounceStart

\* executedFunction(...args): clearTimeout(timeout), then
\* timeout = setTimeout(later, wait) with later closing over args.
DebouncedCall(args) ==
    /\ dCalls < MaxDebounceCalls
    /\ dClock + DebounceWait <= MaxClock
    /\ dCalls' = dCalls + 1
    /\ dTimer' = [set |-> TRUE, due |-> setTimeoutDue(dClock, DebounceWait), args |-> args]
    /\ dLast' = [has |-> TRUE, at |-> dClock, args |-> args]
    /\ dSince' = dSince + 1
    /\ UNCHANGED <<dClock, dInvoked, debounceOthers>>

\* The timer task: later() clears the timeout and calls func(...args).
DebounceTimerRuns ==
    /\ dTimer.set
    /\ dClock >= dTimer.due
    /\ dInvoked' = Append(dInvoked, [at |-> dClock, args |-> dTimer.args])
    /\ dTimer' = NoTimer
    /\ dSince' = 0
    /\ UNCHANGED <<dClock, dLast, dCalls, debounceOthers>>

DebounceTick ==
    /\ dClock < MaxClock
    /\ dClock' = dClock + 1
    /\ UNCHANGED <<dTimer, dLast, dSince, dInvoked, dCalls, debounceOthers>>

DebounceNext ==
    \/ \E args \in DebounceArgs : DebouncedCall(args)
    \/ DebounceTimerRuns
    \/ DebounceTick

(***************************************************************************)
(* truncate, of helpers.js and of TimeEstimator.                           *)
(***************************************************************************)
MaxTextLength == 5
MaxMaxLength == 5

\* String.prototype.substring(0, end): an end below 0 counts as 0, an end
\* beyond the length as the length.
substring0(text, end) ==
    SubSeq(text, 1, IF end < 0 THEN 0 ELSE IF end > Len(text) THEN Len(text) ELSE end)

strEllipsis == <<".", ".", ".">>

\* helpers.truncate(text, maxLength, suffix)
helpersTruncate(text, maxLength, suffix) ==
    IF text = <<>> \/ Len(text) <= maxLength THEN text
    ELSE substring0(text, maxLength - Len(suffix)) \o suffix

\* TimeEstimator.truncate(text, maxLength)
estimatorTruncate(text, maxLength) ==
    IF text = <<>> \/ Len(text) <= maxLength THEN text
    ELSE substring0(text, maxLength) \o strEllipsis

SampleText(n) == [i \in 1..n |-> LowerChars[i]]

TruncateStart == tBy = "none" /\ tOut = <<>>

TruncateInit ==
    /\ tText \in {SampleText(n) : n \in 0..MaxTextLength}
    /\ tMax \in 0..MaxMaxLength
    /\ tSuffix \in {<<>>, <<"~">>, strEllipsis}
    /\ TruncateStart

TruncateIdle == tText = <<>> /\ tMax = 0 /\ tSuffix = strEllipsis /\ TruncateStart

HelpersTruncate ==
    /\ tBy = "none"
    /\ tBy' = "helpers"
    /\ tOut' = helpersTruncate(tText, tMax, tSuffix)
    /\ UNCHANGED <<tText, tMax, tSuffix, truncateOthers>>

EstimatorTruncate ==
    /\ tBy = "none"
    /\ tSuffix = strEllipsis
    /\ tBy' = "estimator"
    /\ tOut' = estimatorTruncate(tText, tMax)
    /\ UNCHANGED <<tText, tMax, tSuffix, truncateOthers>>

TruncateNext == HelpersTruncate \/ EstimatorTruncate

(***************************************************************************)
(* Refresh passes side by side: refreshAssignmentsInBackground is async,   *)
(* so the alarm listener and the message handlers can each start a pass    *)
(* while another awaits getTodoItems or estimateAll.  Fetches are numbered *)
(* in the order in which getTodoItems resolved.                            *)
(***************************************************************************)
MaxPasses == 3

Passes == {"p1", "p2"}

PassTriggers == {"alarm", "REFRESH_ASSIGNMENTS", "GET_ASSIGNMENTS"}

IdlePass == [by |-> "none", pc |-> "idle", fetchNo |-> 0, outcome |-> "none"]

NoSnapshot == [has |-> FALSE, fetchNo |-> 0]

OverlapStart ==
    /\ pass = [p \in Passes |-> IdlePass]
    /\ fetches = 0
    /\ snapshot = NoSnapshot
    /\ started = 0

OverlapIdle == OverlapStart

\* The alarm fires, REFRESH_ASSIGNMENTS arrives, or getAssignments finds no
\* fresh snapshot: refreshAssignmentsInBackground reads the settings and,
\* with both credentials, calls getTodoItems; without them it returns.
PassBegins(p, trigger, configured) ==
    /\ pass[p].pc \in {"idle", "done"}
    /\ started < MaxPasses
    /\ started' = started + 1
    /\ pass' = [pass EXCEPT ![p] = [by |-> trigger, fetchNo |-> 0,
                                    pc |-> IF configured THEN "fetch" ELSE "done",
                                    outcome |-> IF configured THEN "none" ELSE "skipped"]]
    /\ UNCHANGED <<fetches, snapshot, overlapOthers>>

\* getTodoItems resolves; estimateAll is called.
PassFetchReturns(p) ==
    /\ pass[p].pc = "fetch"
    /\ fetches' = fetches + 1
    /\ pass' = [pass EXCEPT ![p].pc = "estimate", ![p].fetchNo = fetches + 1]
    /\ UNCHANGED <<snapshot, started, overlapOthers>>

\* getTodoItems rejects: the catch block logs.
PassFetchFails(p) ==
    /\ pass[p].pc = "fetch"
    /\ pass' = [pass EXCEPT ![p].pc = "done", ![p].outcome = "failed"]
    /\ UNCHANGED <<fetches, snapshot, started, overlapOthers>>

\* chrome.storage.local.set({cachedAssignments: assignments, lastUpdated})
passStores(p) == [has |-> TRUE, fetchNo |-> pass[p].fetchNo]

\* estimateAll resolves: the snapshot is stored.
PassEstimateReturns(p) ==
    /\ pass[p].pc = "estimate"
    /\ snapshot' = passStores(p)
    /\ pass' = [pass EXCEPT ![p].pc = "done", ![p].outcome = "stored"]
    /\ UNCHANGED <<fetches, started, overlapOthers>>

\* estimateAll rejects: the catch block logs.
PassEstimateThrows(p) ==
    /\ pass[p].pc = "estimate"
    /\ pass' = [pass EXCEPT ![p].pc = "done", ![p].outcome = "failed"]
    /\ UNCHANGED <<fetches, snapshot, started, overlapOthers>>

OverlapNext ==
    \/ \E p \in Passes, trigger \in PassTriggers, configured \in BOOLEAN :
          PassBegins(p, trigger, configured)
    \/ \E p \in Passes : PassFetchReturns(p)
    \/ \E p \in Passes : PassFetchFails(p)
    \/ \E p \in Passes : PassEstimateReturns(p)
    \/ \E p \in Passes : PassEstimateThrows(p)

(***************************************************************************)
(* The urgency predicates of helpers.js and the filter of the worker, in   *)
(* the worker's unit of time.                                              *)
(***************************************************************************)
\* helpers.isUrgent(dueDate): hoursUntilDue > 0 && hoursUntilDue <= 24
helpersIsUrgent(dueDate, t) ==
    dueDate.has /\ dueDate.t - t > 0 /\ dueDate.t - t <= TwentyFourHours

\* helpers.isOverdue(dueDate): date < now
helpersIsOverdue(dueDate, t) == dueDate.has /\ dueDate.t < t

\* helpers.getUrgencyLevel(dueDate)
getUrgencyLevel(dueDate, t) ==
    IF ~dueDate.has THEN "none"
    ELSE IF dueDate.t - t < 0 THEN "overdue"
    ELSE IF dueDate.t - t <= TwentyFourHours THEN "urgent"
    ELSE IF dueDate.t - t <= 3 * TwentyFourHours THEN "soon"
    ELSE "normal"

boolText(b) == IF b THEN "true" ELSE "false"

UrgencyNows == {2 * TwentyFourHours, 2 * TwentyFourHours + 1, 3 * TwentyFourHours}

\* How far from now the due date lies.
UrgencyOffsets ==
    {0 - TwentyFourHours - 1, 0 - 1, 0, 1, TwentyFourHours - 1, TwentyFourHours,
     TwentyFourHours + 1, 3 * TwentyFourHours - 1, 3 * TwentyFourHours,
     3 * TwentyFourHours + 1}

UrgencyStart == gBy = "none" /\ gOut = ""

UrgencyInit ==
    /\ gNow \in UrgencyNows
    /\ gDue \in {NoDate} \cup {DateAt(gNow + d) : d \in UrgencyOffsets}
    /\ UrgencyStart

UrgencyIdle == gNow = 2 * TwentyFourHours /\ gDue = NoDate /\ UrgencyStart

CallIsUrgent ==
    /\ gBy = "none"
    /\ gBy' = "isUrgent"
    /\ gOut' = boolText(helpersIsUrgent(gDue, gNow))
    /\ UNCHANGED <<gDue, gNow, urgencyOthers>>

CallIsOverdue ==
    /\ gBy = "none"
    /\ gBy' = "isOverdue"
    /\ gOut' = boolText(helpersIsOverdue(gDue, gNow))
    /\ UNCHANGED <<gDue, gNow, urgencyOthers>>

CallGetUrgencyLevel ==
    /\ gBy = "none"
    /\ gBy' = "getUrgencyLevel"
    /\ gOut' = getUrgencyLevel(gDue, gNow)
    /\ UNCHANGED <<gDue, gNow, urgencyOthers>>

\* The filter of checkForUrgentAssignments on an item with this due date.
WorkerFilter ==
    /\ gBy = "none"
    /\ gBy' = "worker"
    /\ gOut' = boolText(isUrgent(RawItem("item", gDue), gNow))
    /\ UNCHANGED <<gDue, gNow, urgencyOthers>>

UrgencyNext == CallIsUrgent \/ CallIsOverdue \/ CallGetUrgencyLevel \/ WorkerFilter

(***************************************************************************)
(* The content script: scans of the page that badge assignment elements.   *)
(***************************************************************************)
MaxScans == 3

\* The elements findAssignmentElements returns, in document order.
ElementOrder == <<"e1", "e2">>

Elements == {ElementOrder[i] : i \in 1..Len(ElementOrder)}

Scans == {"s1", "s2"}

\* "inner": the title is a .planner-item-link, .assignment-title or
\* .ig-title inside the element; "self": the title is a .fc-title or a
\* link to an assignment only, so the badge goes after the element;
\* "untitled": extractAssignmentInfo finds no title.
Layouts == {"inner", "self", "untitled"}

IdleScan == [by |-> "none", pc |-> "idle", at |-> 0]

\* The loop of injectTimeEstimates from position i: the first element that
\* is not marked processed and has a title, 0 when there is none.
nextToEstimate(layout, processed, i) ==
    LET todo == {j \in i..Len(ElementOrder) :
                    /\ ~processed[ElementOrder[j]]
                    /\ layout[ElementOrder[j]] # "untitled"}
    IN  IF todo = {} THEN 0 ELSE CHOOSE j \in todo : \A k \in todo : j <= k

\* The scan run on from position i up to its next await, or to its end.
scanFrom(by, processed, i) ==
    IF nextToEstimate(cLayout, processed, i) = 0
    THEN [by |-> by, pc |-> "done", at |-> 0]
    ELSE [by |-> by, pc |-> "await", at |-> nextToEstimate(cLayout, processed, i)]

\* element.querySelector('.canvas-time-estimate-badge') and remove(): one
\* badge among the descendants is removed, if there is one.
afterRemoval(n) == IF n > 0 THEN n - 1 ELSE 0

ContentStart ==
    /\ cProcessed = [e \in Elements |-> FALSE]
    /\ cInside = [e \in Elements |-> 0]
    /\ cAfter = [e \in Elements |-> 0]
    /\ cScan = [s \in Scans |-> IdleScan]
    /\ cScans = 0
    /\ cReady = FALSE
    /\ cTimer = FALSE
    /\ cMarked = FALSE

ContentInit == cLayout \in [Elements -> Layouts] /\ ContentStart

ContentIdle == cLayout = [e \in Elements |-> "inner"] /\ ContentStart

scanCanStart(s) == cScan[s].pc \in {"idle", "done"} /\ cScans < MaxScans

\* onReady: the initial injection; the observer and the interval are set up.
OnReady(s) ==
    /\ ~cReady
    /\ scanCanStart(s)
    /\ cReady' = TRUE
    /\ cScans' = cScans + 1
    /\ cScan' = [cScan EXCEPT ![s] = scanFrom("ready", cProcessed, 1)]
    /\ UNCHANGED <<cLayout, cProcessed, cInside, cAfter, cTimer, cMarked, contentOthers>>

\* setInterval(injectTimeEstimates, 5000) fires.
IntervalFires(s) ==
    /\ cReady
    /\ scanCanStart(s)
    /\ cScans' = cScans + 1
    /\ cScan' = [cScan EXCEPT ![s] = scanFrom("interval", cProcessed, 1)]
    /\ UNCHANGED <<cLayout, cProcessed, cInside, cAfter, cReady, cTimer, cMarked, contentOthers>>

\* The page adds nodes: the observer sets its timeout anew.
PageAddsNodes ==
    /\ cReady
    /\ ~cTimer
    /\ cTimer' = TRUE
    /\ UNCHANGED <<cLayout, cProcessed, cInside, cAfter, cScan, cScans, cReady, cMarked,
                   contentOthers>>

\* The timeout of observeDOMChanges runs injectTimeEstimates.
MutationTimerRuns(s) ==
    /\ cTimer
    /\ scanCanStart(s)
    /\ cTimer' = FALSE
    /\ cScans' = cScans + 1
    /\ cScan' = [cScan EXCEPT ![s] = scanFrom("mutation", cProcessed, 1)]
    /\ UNCHANGED <<cLayout, cProcessed, cInside, cAfter, cReady, cMarked, contentOthers>>

\* getTimeEstimate resolves with an estimate: injectBadge removes a badge
\* found inside the element, inserts the new one after the title or after
\* the element, the element is marked, and the loop goes on.  The inserted
\* node is a mutation the observer sees.
EstimateArrives(s) ==
    /\ cScan[s].pc = "await"
    /\ LET e == ElementOrder[cScan[s].at]
           processed == [cProcessed EXCEPT ![e] = TRUE]
       IN  /\ cInside' = [cInside EXCEPT ![e] =
                             IF cLayout[e] = "inner" THEN afterRemoval(@) + 1
                             ELSE afterRemoval(@)]
           /\ cAfter' = [cAfter EXCEPT ![e] = IF cLayout[e] = "inner" THEN @ ELSE @ + 1]
           /\ cMarked' = cProcessed[e]
           /\ cProcessed' = processed
           /\ cScan' = [cScan EXCEPT ![s] = scanFrom(@.by, processed, cScan[s].at + 1)]
    /\ cTimer' = TRUE
    /\ UNCHANGED <<cLayout, cScans, cReady, contentOthers>>

\* getTimeEstimate resolves with null or rejects: no badge, no mark, the
\* loop goes on.
EstimateMissing(s) ==
    /\ cScan[s].pc = "await"
    /\ cScan' = [cScan EXCEPT ![s] = scanFrom(@.by, cProcessed, cScan[s].at + 1)]
    /\ UNCHANGED <<cLayout, cProcessed, cInside, cAfter, cScans, cReady, cTimer, cMarked,
                   contentOthers>>

ContentNext ==
    \/ \E s \in Scans : OnReady(s)
    \/ \E s \in Scans : IntervalFires(s)
    \/ PageAddsNodes
    \/ \E s \in Scans : MutationTimerRuns(s)
    \/ \E s \in Scans : EstimateArrives(s)
    \/ \E s \in Scans : EstimateMissing(s)

(***************************************************************************)
(* Specifications, one per part; the other parts stand still.              *)
(***************************************************************************)
InitHeuristic == HeurInit /\ EstIdle /\ CanvasIdle /\ UpcomingIdle /\ WorkerIdle /\ ParseIdle /\ OptionsIdle /\ DebounceIdle /\ TruncateIdle /\ OverlapIdle /\ UrgencyIdle /\ ContentIdle

SpecHeuristic == InitHeuristic /\ [][HeurNext]_vars

InitEstimator == EstInit /\ HeurIdle /\ CanvasIdle /\ UpcomingIdle /\ WorkerIdle /\ ParseIdle /\ OptionsIdle /\ DebounceIdle /\ TruncateIdle /\ OverlapIdle /\ UrgencyIdle /\ ContentIdle

SpecEstimator == InitEstimator /\ [][EstNext]_vars

InitParse == ParseInit /\ HeurIdle /\ EstIdle /\ CanvasIdle /\ UpcomingIdle /\ WorkerIdle /\ OptionsIdle /\ DebounceIdle /\ TruncateIdle /\ OverlapIdle /\ UrgencyIdle /\ ContentIdle

SpecParse == InitParse /\ [][ParseNext]_vars

InitCanvas == CanvasInit /\ HeurIdle /\ EstIdle /\ UpcomingIdle /\ WorkerIdle /\ ParseIdle /\ OptionsIdle /\ DebounceIdle /\ TruncateIdle /\ OverlapIdle /\ UrgencyIdle /\ ContentIdle

SpecCanvas == InitCanvas /\ [][CanvasNext]_vars

(***************************************************************************)
(* One refresh: the worker configures the client, awaits getTodoItems and  *)
(* hands what it returned to estimateAll; estimateSingle is also called on *)
(* its own, for one item of a message.                                     *)
(***************************************************************************)
RefreshConfigure(url, token) == epc = "idle" /\ CanvasConfigure(url, token)

RefreshGetTodoItems == epc = "idle" /\ GetTodoItems

RefreshPlannerSucceeds(payload) == epc = "idle" /\ PlannerSucceeds(payload)

RefreshPlannerFails(outcome) == epc = "idle" /\ PlannerFails(outcome)

RefreshTodoSucceeds(payload) == epc = "idle" /\ TodoSucceeds(payload)

RefreshTodoFails(outcome) == epc = "idle" /\ TodoFails(outcome)

\* timeEstimator.estimateAll(rawAssignments)
RefreshEstimateAll == cpc = "returned" /\ StartEstimateAll(cResult)

\* estimator.estimateSingle(message.assignment)
MessageEstimateSingle(item) == cpc = "idle" /\ StartEstimateSingle(item)

RefreshNext ==
    \/ \E token \in {"", "good", "revoked"} :
           RefreshConfigure(<<"https://canvas.example", "/">>, token)
    \/ RefreshGetTodoItems
    \/ \E payload \in PlannerPayloads : RefreshPlannerSucceeds(payload)
    \/ \E outcome \in {"401", "404", "500", "malformed", "neterr"} : RefreshPlannerFails(outcome)
    \/ \E payload \in TodoPayloads : RefreshTodoSucceeds(payload)
    \/ \E outcome \in {"401", "404", "500", "malformed", "neterr"} : RefreshTodoFails(outcome)
    \/ RefreshEstimateAll
    \/ ConfigureAll
    \/ \E item \in EstItems : MessageEstimateSingle(item)
    \/ EstimateSingleConfigure
    \/ \E r \in Responses : BackendResponse(r)
    \/ \E s \in SettingsStores : SaveSettings(s)

InitRefresh ==
    EstInit /\ CanvasInit /\ HeurIdle /\ UpcomingIdle /\ WorkerIdle /\ ParseIdle /\ OptionsIdle /\ DebounceIdle /\ TruncateIdle /\ OverlapIdle /\ UrgencyIdle /\ ContentIdle

SpecRefresh == InitRefresh /\ [][RefreshNext]_vars

InitUpcoming == CanvasInit /\ UpcomingStart /\ HeurIdle /\ EstIdle /\ WorkerIdle /\ ParseIdle /\ OptionsIdle /\ DebounceIdle /\ TruncateIdle /\ OverlapIdle /\ UrgencyIdle /\ ContentIdle

SpecUpcoming == InitUpcoming /\ [][UpcomingNext]_vars

InitWorker == WorkerInit /\ HeurIdle /\ EstIdle /\ CanvasIdle /\ UpcomingIdle /\ ParseIdle /\ OptionsIdle /\ DebounceIdle /\ TruncateIdle /\ OverlapIdle /\ UrgencyIdle /\ ContentIdle

SpecWorker == InitWorker /\ [][WorkerNext]_vars

InitMessages == WorkerInit /\ HeurIdle /\ EstIdle /\ CanvasIdle /\ UpcomingIdle /\ ParseIdle /\ OptionsIdle /\ DebounceIdle /\ TruncateIdle /\ OverlapIdle /\ UrgencyIdle /\ ContentIdle

\* The worker answering messages; every promise a handler awaits settles
\* and the event loop then runs the handler's continuation.
SpecMessages ==
    /\ InitMessages
    /\ [][MessagesNext]_vars
    /\ \A h \in Handlers : WF_vars(Continue(h))

InitOptions ==
    OptionsStart /\ HeurIdle /\ EstIdle /\ CanvasIdle /\ UpcomingIdle /\ WorkerIdle /\ ParseIdle /\ DebounceIdle /\ TruncateIdle /\ OverlapIdle /\ UrgencyIdle /\ ContentIdle

SpecOptions == InitOptions /\ [][OptionsNext]_vars

InitDebounce ==
    DebounceStart /\ HeurIdle /\ EstIdle /\ CanvasIdle /\ UpcomingIdle /\ WorkerIdle
    /\ ParseIdle /\ OptionsIdle /\ TruncateIdle /\ OverlapIdle /\ UrgencyIdle /\ ContentIdle

\* Time passes, and a timer that is due is run in the end.
SpecDebounce ==
    /\ InitDebounce
    /\ [][DebounceNext]_vars
    /\ WF_vars(DebounceTick)
    /\ WF_vars(DebounceTimerRuns)

InitTruncate ==
    TruncateInit /\ HeurIdle /\ EstIdle /\ CanvasIdle /\ UpcomingIdle /\ WorkerIdle
    /\ ParseIdle /\ OptionsIdle /\ DebounceIdle /\ OverlapIdle /\ UrgencyIdle /\ ContentIdle

SpecTruncate == InitTruncate /\ [][TruncateNext]_vars

InitOverlap ==
    OverlapStart /\ HeurIdle /\ EstIdle /\ CanvasIdle /\ UpcomingIdle /\ WorkerIdle
    /\ ParseIdle /\ OptionsIdle /\ DebounceIdle /\ TruncateIdle /\ UrgencyIdle /\ ContentIdle

SpecOverlap == InitOverlap /\ [][OverlapNext]_vars

InitUrgency ==
    UrgencyInit /\ HeurIdle /\ EstIdle /\ CanvasIdle /\ UpcomingIdle /\ WorkerIdle
    /\ ParseIdle /\ OptionsIdle /\ DebounceIdle /\ TruncateIdle /\ OverlapIdle /\ ContentIdle

SpecUrgency == InitUrgency /\ [][UrgencyNext]_vars

InitContent ==
    ContentInit /\ HeurIdle /\ EstIdle /\ CanvasIdle /\ UpcomingIdle /\ WorkerIdle
    /\ ParseIdle /\ OptionsIdle /\ DebounceIdle /\ TruncateIdle /\ OverlapIdle
    /\ UrgencyIdle

SpecContent == InitContent /\ [][ContentNext]_vars

(***************************************************************************)
(* Claims about the scorer.                                                *)
(***************************************************************************)
hasModality(assignment, m) ==
    /\ assignment.submissionTypes.isArray
    /\ m \in {assignment.submissionTypes.elems[i] : i \in 1..Len(assignment.submissionTypes.elems)}

\* The table of the specification, row by row.
RefBase(c) ==
    CASE c = "quiz" -> 30 [] c = "discussion" -> 45 [] c = "assignment" -> 60
      [] c = "essay" -> 120 [] c = "project" -> 180 [] c = "exam" -> 90
      [] c = "reading" -> 30

RefPerPoint(c) ==
    CASE c = "quiz" -> 1 [] c = "discussion" -> 2 [] c = "assignment" -> 3
      [] c = "essay" -> 5 [] c = "project" -> 8 [] c = "exam" -> 2
      [] c = "reading" -> 1

RefEstimate(assignment) ==
    LET c   == categorizeAssignment(assignment)
        p   == IF assignment.pointsPossible.isNumber THEN assignment.pointsPossible.v ELSE 0
        raw == RefBase(c) + p * RefPerPoint(c)
               + (IF hasModality(assignment, "online_upload") THEN 15 ELSE 0)
               + (IF hasModality(assignment, "media_recording") THEN 30 ELSE 0)
    IN  IF raw < 15 THEN 15 ELSE IF raw > 480 THEN 480 ELSE raw

\* C2: whatever the item and its points (negative, zero, very large, absent),
\* getHeuristicEstimate returns a value in [15, 480], and a second call on the
\* same item returns the same value.
C2_HeuristicInRange ==
    /\ hCalls >= 1 => (hMinutes >= 15 /\ hMinutes <= 480)
    /\ hCalls = 2 => (hAgain >= 15 /\ hAgain <= 480 /\ hAgain = hMinutes)

\* A negative points value that the lower cap had to absorb, asked for twice.
C2_Witness ==
    /\ hCalls = 2
    /\ hItem.pointsPossible = Points(-1000)
    /\ hMinutes = 15
    /\ hAgain = 15

\* C3: getHeuristicEstimate equals clamp(base + p * perPoint + 15 [upload]
\* + 30 [media recording], 15, 480) with the table of the specification; an
\* essay with 20 points gives 220, a project with 1000 points gives 480.
C3_HeuristicFormula ==
    hCalls >= 1 =>
        /\ hMinutes = RefEstimate(hItem)
        /\ ( /\ categorizeAssignment(hItem) = "essay"
             /\ hItem.pointsPossible = Points(20)
             /\ ~hasModality(hItem, "online_upload")
             /\ ~hasModality(hItem, "media_recording") ) => hMinutes = 220
        /\ ( /\ categorizeAssignment(hItem) = "project"
             /\ hItem.pointsPossible = Points(1000) ) => hMinutes = 480

\* The essay example of the specification: 120 + 20 * 5 = 220.
C3_Witness ==
    /\ hCalls >= 1
    /\ categorizeAssignment(hItem) = "essay"
    /\ hItem.pointsPossible = Points(20)
    /\ hItem.submissionTypes = SubmissionTypes(<<>>)
    /\ hMinutes = 220

\* Category resolution as C4 states it: a rule matches when one of its
\* keywords occurs in the lower-cased title or in the lower-cased type field.
ClaimedRuleMatches(assignment, kws) ==
    \E k \in kws : \/ includes(toLowerCase(assignment.title), k)
                   \/ includes(toLowerCase(assignment.type), k)

ClaimedCategory(assignment) ==
    IF ClaimedRuleMatches(assignment, {kwQuiz}) THEN "quiz"
    ELSE IF ClaimedRuleMatches(assignment, {kwDiscussion}) THEN "discussion"
    ELSE IF ClaimedRuleMatches(assignment, {kwEssay, kwPaper}) THEN "essay"
    ELSE IF ClaimedRuleMatches(assignment, {kwProject, kwPresentation}) THEN "project"
    ELSE IF ClaimedRuleMatches(assignment, {kwExam, kwTest, kwMidterm, kwFinal}) THEN "exam"
    ELSE IF ClaimedRuleMatches(assignment, {kwReading, kwRead}) THEN "reading"
    ELSE "assignment"

\* C4: the rules are tried in the order quiz, discussion, essay/paper,
\* project/presentation, exam/test/midterm/final, reading/read, then
\* "assignment"; a rule matches when its keyword occurs in the title or in the
\* type field; the first matching rule wins ("Quiz Discussion" is a quiz).
C4_CategoryPriority ==
    hCategory # "unset" =>
        /\ hCategory = ClaimedCategory(hItem)
        /\ hItem.title = <<"Q", "u", "i", "z", " ", "D", "i", "s", "c", "u", "s", "s", "i", "o", "n">>
             => hCategory = "quiz"

(***************************************************************************)
(* Claims about the estimator.                                             *)
(***************************************************************************)
\* The provider the last backend request went to: getAIEstimate dispatches on
\* the field configure has just set, and nothing sets it before the answer.
lastProvider == est.aiProvider

\* A text none of the parse stages can read: no JSON, no embedded JSON object
\* with a "minutes" key, no "<number> minutes".
unparseable(toks) ==
    /\ JSONparse(toks).threw
    /\ (matchJsonObject(toks) = <<>> \/ JSONparse(matchJsonObject(toks)).threw)
    /\ matchMinutes(toks) = 0

fellBackToHeuristic ==
    /\ epc # "threw"
    /\ eLast.result.estimationMethod = "heuristic"
    /\ eLast.result.estimatedMinutes = JSNumber(getHeuristicEstimate(eInput[eLast.idx]))

\* C1 as stated: for every eligible provider, a transport error, a non-success
\* status, an unparseable text or a missing text makes estimateSingle return
\* the heuristic estimate with method "heuristic", without raising.
C1_Original ==
    ( /\ eLast.done /\ eLast.requested
      /\ \/ eLast.resp.neterr
         \/ ~responseOk(eLast.resp)
         \/ ~eLast.resp.content.present
         \/ unparseable(eLast.resp.content.toks) )
    => fellBackToHeuristic

\* C1 as amended: the fallback is taken on a transport error, a non-success
\* status or a missing text for every provider, and on a text that neither
\* JSON.parse nor the "<number> minutes" pattern reads for openai and
\* anthropic; for local an unparseable text is no failure: the result has
\* method "ai" and the default 60 minutes.
C1_FallbackOnFailure ==
    ( eLast.done /\ eLast.requested ) =>
        /\ epc # "threw"
        /\ ( \/ eLast.resp.neterr
             \/ ~responseOk(eLast.resp)
             \/ ~eLast.resp.content.present
             \/ /\ lastProvider \in {"openai", "anthropic"}
                /\ JSONparse(eLast.resp.content.toks).threw
                /\ matchMinutes(eLast.resp.content.toks) = 0 )
           => fellBackToHeuristic
        /\ ( /\ lastProvider = "local"
             /\ ~eLast.resp.neterr /\ responseOk(eLast.resp) /\ eLast.resp.content.present
             /\ unparseable(eLast.resp.content.toks) )
           => /\ eLast.result.estimationMethod = "ai"
              /\ eLast.result.estimatedMinutes = JSNumber(60)

\* A hosted backend answered 200 with a text nothing can be read from, and the
\* estimate of the essay item fell back to 220 heuristic minutes.
C1_Witness ==
    /\ eLast.done /\ eLast.requested
    /\ lastProvider = "openai"
    /\ eLast.resp = HttpResponse(200, Content(TextGarbage))
    /\ eInput[eLast.idx] = EssayItem
    /\ eLast.result.estimationMethod = "heuristic"
    /\ eLast.result.estimatedMinutes = JSNumber(220)

\* Eligibility as C5 states it, on the settings estimateSingle loaded.
eligible(settings) ==
    \/ settings.aiProvider = "local"
    \/ settings.aiProvider = "openai" /\ settings.openaiApiKey # ""
    \/ settings.aiProvider = "anthropic" /\ settings.anthropicApiKey # ""

\* C5: estimateSingle issues a backend request exactly when the provider it
\* just loaded is "local", or is "openai"/"anthropic" with a non-empty stored
\* credential of that provider; otherwise no request is issued and the
\* result has method "heuristic".
C5_BackendOnlyWhenEligible ==
    eLast.idx # 0 =>
        /\ (\E k \in 1..Len(eRequests) : eRequests[k] = eLast.idx) <=> eligible(eLast.loaded)
        /\ eLast.requested <=> eligible(eLast.loaded)
        /\ ~eligible(eLast.loaded) => (eLast.done /\ eLast.result.estimationMethod = "heuristic")
        /\ Len(eRequests) <= Len(eOutput) + Cardinality(eInflight)

\* openai is selected, only the anthropic key is stored: no request, heuristic.
C5_Witness ==
    /\ eLast.done
    /\ eLast.loaded = Settings("openai", "", "sk-a")
    /\ eRequests = <<>>
    /\ Len(eOutput) = 1
    /\ eOutput[1].estimationMethod = "heuristic"

\* C9: estimateAll returns as many results as it got items, the i-th result
\* being the estimate of the i-th item; the items are estimated one after
\* another (a backend request is issued only when all earlier items are done);
\* estimateAll([]) returns [].
C9_EstimateAllInOrder ==
    /\ Len(eOutput) <= Len(eInput)
    /\ \A i \in 1..Len(eOutput) :
          /\ itemOf(eOutput[i]) = eInput[i]
          /\ eOutput[i].estimationMethod \in {"ai", "heuristic"}
          /\ eOutput[i].estimationMethod = "heuristic"
               => eOutput[i].estimatedMinutes = JSNumber(getHeuristicEstimate(eInput[i]))
    /\ (eOp = "estimateAll" /\ epc = "done") => Len(eOutput) = Len(eInput)
    /\ (eOp = "estimateAll" /\ epc = "done" /\ eInput = <<>>) => eOutput = <<>>
    /\ Cardinality(eInflight) <= 1
    /\ \A i \in eInflight : Len(eOutput) = i - 1
    /\ \A k \in 1..(Len(eRequests) - 1) : eRequests[k] < eRequests[k + 1]

\* Two different items went through the backend, in order.
C9_Witness ==
    /\ eOp = "estimateAll" /\ epc = "done"
    /\ eInput = <<EssayItem, QuizItem>>
    /\ Len(eRequests) = 2
    /\ eOutput[1].estimationMethod = "ai"
    /\ itemOf(eOutput[2]) = QuizItem

(***************************************************************************)
(* Claims about the Canvas client.                                         *)
(***************************************************************************)
requested(endpoint) == \E k \in 1..Len(cHttp) : cHttp[k] = endpoint

\* C10: getTodoItems requests the planner endpoint first and falls back to
\* the todo endpoint only when that endpoint itself failed; when the planner
\* request failed because the token was rejected or the configuration is
\* missing, the todo endpoint is not requested and the failure reaches the
\* caller.
C10_FallbackNotOnAuth ==
    /\ cHttp # <<>> => cHttp[1] = "planner"
    /\ requested("todo") => cCause \in {"endpoint", "network"}
    /\ cCause \in {"auth", "config"} =>
          /\ ~requested("todo")
          /\ cpc \in {"returned", "threw"} => cpc = "threw"

(***************************************************************************)
(* Claims about the service worker and the cache.                          *)
(***************************************************************************)
\* A snapshot exists and is younger than the freshness window at time t.
snapshotFresh(store, t) ==
    /\ store.cachedAssignments.has
    /\ store.lastUpdated.has
    /\ t - store.lastUpdated.v < MaxCacheAge

passCompleted(rec) == rec.outcome \in {"skipped", "failed", "stored"}

\* The reply built from the snapshot the cache holds: its items, or no items
\* when it holds none, and its timestamp.
replyFromStore(store) ==
    [type |-> "assignments",
     items |-> IF store.cachedAssignments.has THEN store.cachedAssignments
               ELSE [has |-> TRUE, v |-> <<>>, by |-> 0],
     fromCache |-> FALSE,
     lastUpdated |-> store.lastUpdated]

C6_ReadStep(h) ==
    OnGetAssignments(h) =>
        IF snapshotFresh(localStore, now)
        THEN /\ handler'[h].pc = "done"
             /\ handler'[h].resp = [type |-> "assignments",
                                    items |-> localStore.cachedAssignments,
                                    fromCache |-> TRUE,
                                    lastUpdated |-> localStore.lastUpdated]
             /\ localStore' = localStore
        ELSE /\ handler'[h].pc # "done"
             /\ handler'[h].resp = NoResponse

C6_ReplyStep(h) ==
    handler[h].kind = "GET_ASSIGNMENTS" /\ handler[h].pc # "done" /\ handler'[h].pc = "done" =>
        /\ passCompleted(handler[h])
        /\ handler'[h].resp = replyFromStore(localStore)
        /\ localStore' = localStore

C6_Replied(h) ==
    handler[h].kind = "GET_ASSIGNMENTS" =>
        /\ handler[h].pc # "done" => handler[h].resp = NoResponse
        /\ handler[h].pc = "done" /\ handler[h].resp.fromCache =>
              /\ handler[h].outcome = "none"
              /\ ~handler[h].fetched
              /\ ~handler[h].calledEstimator
              /\ ~handler[h].wrote
        /\ handler[h].pc = "done" /\ ~handler[h].resp.fromCache => passCompleted(handler[h])
        /\ handler[h].pc = "done" =>
              (handler[h].resp.fromCache <=>
                  handler[h].foundAge.has /\ handler[h].foundAge.minutes < MaxCacheAge)

\* C6: getAssignments answers from the cache, with fromCache = true and
\* without fetch, estimator call or cache write, exactly when a snapshot
\* exists whose age is under 5 minutes; otherwise it answers only after a
\* refresh pass has run to its end, with fromCache = false and the snapshot
\* the cache holds then.
C6_OnDemandRead ==
    /\ [](\A h \in Handlers : C6_Replied(h))
    /\ [][\A h \in Handlers : C6_ReadStep(h) /\ C6_ReplyStep(h)]_vars

\* A request that found a snapshot aged exactly 5 minutes, ran a pass that
\* stored a new one, and answered with it.
C6_Witness ==
    \E h \in Handlers :
        /\ handler[h].kind = "GET_ASSIGNMENTS"
        /\ handler[h].pc = "done"
        /\ handler[h].foundAge = [has |-> TRUE, minutes |-> MaxCacheAge]
        /\ handler[h].outcome = "stored"
        /\ handler[h].resp.lastUpdated.by = 2
        /\ handler[h].resp.items.v # <<>>

failedAsWhole(rec) == rec.outcome \in {"skipped", "failed"}

C7_FailingStep(h) ==
    handler'[h] # handler[h] /\ failedAsWhole(handler'[h]) =>
        /\ localStore' = localStore
        /\ notifications' = notifications
        /\ handler'[h].pc \in {"done", "reread"}

\* C7: a pass that ends for missing credentials, a failed fetch or a failed
\* estimation has written neither cache key and created no notification,
\* the step that ends it leaves the cache and the notifications as they
\* are, and its caller carries on.
C7_FailedPassLeavesCache ==
    /\ [](\A h \in Handlers :
             failedAsWhole(handler[h]) => ~handler[h].wrote /\ ~handler[h].notified)
    /\ [][\A h \in Handlers : C7_FailingStep(h)]_vars

\* A pass whose estimation threw, ended while the cache held a snapshot.
C7_Witness ==
    \E h \in Handlers :
        /\ handler[h].outcome = "failed"
        /\ handler[h].calledEstimator
        /\ handler[h].pc = "done"
        /\ localStore.cachedAssignments.has
        /\ localStore.cachedAssignments.v # <<>>

sameSnapshot(items, stamp) == items.has = stamp.has /\ items.by = stamp.by

readerSawOneSnapshot(resp) ==
    /\ resp.type = "cached" => sameSnapshot(resp.items, resp.lastUpdated)
    /\ resp.type = "assignments" =>
          IF resp.lastUpdated.has
          THEN sameSnapshot(resp.items, resp.lastUpdated)
          ELSE resp.items.v = <<>> /\ resp.items.by = 0

\* C8: the cache holds both keys from one write or neither, and every
\* reader that fetched the two keys in one read got the items and the
\* timestamp of one write.
C8_ReadersSeeOneSnapshot ==
    /\ sameSnapshot(localStore.cachedAssignments, localStore.lastUpdated)
    /\ \A h \in Handlers : readerSawOneSnapshot(handler[h].resp)

\* A reader got a snapshot between the cache write of a pass and the end
\* of that pass.
C8_Witness ==
    \E h, g \in Handlers :
        /\ handler[g].pc = "notify"
        /\ handler[h].resp.type = "cached"
        /\ handler[h].resp.items.has
        /\ handler[h].resp.items.v # <<>>
        /\ handler[h].resp.lastUpdated.v = now

(***************************************************************************)
(* Claims about getUpcomingAssignments.                                    *)
(***************************************************************************)
\* The items of the courses handled so far whose fetch succeeded, each
\* with the name and id of its course, in course order.
RECURSIVE taggedItemsOfSucceeded(_)
taggedItemsOfSucceeded(n) ==
    IF n = 0 THEN <<>>
    ELSE taggedItemsOfSucceeded(n - 1) \o
         (IF uLog[n].ok
          THEN [i \in 1..Len(uLog[n].items) |->
                   [id |-> uLog[n].items[i].id, due_at |-> uLog[n].items[i].due_at,
                    courseName |-> uCourses[n].name, courseId |-> uCourses[n].id]]
          ELSE <<>>)

elements(list) == { list[i] : i \in 1..Len(list) }

\* C11: once the course listing has succeeded the call returns and never
\* fails; what it returns is exactly the items of the courses whose fetch
\* succeeded, each tagged with its course's name and id, and nothing of a
\* course whose fetch failed.
C11_PartialResults ==
    /\ upc = "threw" => uCourses = <<>> /\ uLog = <<>>
    /\ upc = "returned" =>
          /\ Len(uLog) = Len(uCourses)
          /\ Len(uResult) = Len(taggedItemsOfSucceeded(Len(uLog)))
          /\ elements(uResult) = elements(taggedItemsOfSucceeded(Len(uLog)))
          /\ \A n \in 1..Len(uLog) : ~uLog[n].ok =>
                \A i \in 1..Len(uResult) : uResult[i].courseId # uCourses[n].id

\* Three courses, the second failing: the items of courses 1 and 3 come back.
C11_Witness ==
    /\ upc = "returned"
    /\ Len(uLog) = 3
    /\ uLog[1].ok /\ uLog[1].items # <<>>
    /\ ~uLog[2].ok
    /\ uLog[3].ok /\ uLog[3].items # <<>>
    /\ {uResult[i].courseId : i \in 1..Len(uResult)} = {1, 3}

hasDate(a) == a.due_at.kind = "date"

\* C12: the returned list is ascending by due date, and no item without a
\* readable due date comes before an item with one.
C12_SortedUndatedLast ==
    upc = "returned" =>
        \A i, j \in 1..Len(uResult) : i < j =>
            /\ hasDate(uResult[i]) /\ hasDate(uResult[j])
                   => uResult[i].due_at.t <= uResult[j].due_at.t
            /\ ~(~hasDate(uResult[i]) /\ hasDate(uResult[j]))

\* The items of a pass that are due after t and less than 24 hours after t.
dueWithinDay(raw, t) ==
    { i \in 1..Len(raw) :
        raw[i].dueDate.has /\ t < raw[i].dueDate.t /\ raw[i].dueDate.t < t + TwentyFourHours }

checksUrgency(h) == handler[h].pc = "notify" /\ handler'[h].pc # "notify"

ollamaDescribed(r) ==
    LET jm == matchJsonObject(r.content.toks)
        m  == matchMinutes(r.content.toks)
    IN  IF jm # <<>> /\ ~JSONparse(jm).threw THEN JSONparse(jm)
        ELSE IF m # 0 THEN Returned("object", JSNumber(r.content.toks[m].v))
        ELSE Returned("object", JSNumber(60))

\* C14: for every response with a success status callOllama returns a
\* result and never fails: the embedded object with a "minutes" key when it
\* parses, otherwise the first "<number> minutes" match, otherwise 60; a
\* non-success status fails with the status code and the body text.
C14_OllamaNeverFailsOn2xx ==
    (pCaller = "local" /\ ~pResp.neterr) =>
        IF responseOk(pResp)
        THEN ~pOut.threw /\ pOut = ollamaDescribed(pResp)
        ELSE pOut.threw /\ pOut.err = Err("status", pResp.status, pResp.content)

\* The part of C14 that holds: a success status with a text.
C14_CascadeOnText ==
    (pCaller = "local" /\ ~pResp.neterr /\ (responseOk(pResp) => pResp.content.present)) =>
        IF responseOk(pResp)
        THEN ~pOut.threw /\ pOut = ollamaDescribed(pResp)
        ELSE pOut.threw /\ pOut.err = Err("status", pResp.status, pResp.content)

\* C15: a hosted caller fails on a non-success status with an error that
\* carries the status code; on success it takes the strict JSON parse of
\* the text, the "<number> minutes" match only when that parse fails, and
\* fails when neither succeeds: it never hands back a default.
C15_HostedCallersFail ==
    (pCaller \in {"openai", "anthropic"} /\ ~pResp.neterr) =>
        IF ~responseOk(pResp)
        THEN pOut.threw /\ pOut.err.kind = "status" /\ pOut.err.status = pResp.status
        ELSE IF ~pResp.content.present
        THEN pOut.threw
        ELSE LET j == JSONparse(pResp.content.toks)
                 m == matchMinutes(pResp.content.toks)
             IN  IF ~j.threw THEN pOut = j
                 ELSE IF m # 0
                 THEN pOut = Returned("object", JSNumber(pResp.content.toks[m].v))
                 ELSE pOut.threw /\ pOut.err.kind = "parse"

\* A hosted caller that got a success status and a text with neither JSON
\* nor a "<number> minutes" phrase, and failed with the parse error.
C15_Witness ==
    /\ pCaller \in {"openai", "anthropic"}
    /\ ~pResp.neterr /\ responseOk(pResp)
    /\ pResp.content = Content(TextGarbage)
    /\ pOut.threw /\ pOut.err.kind = "parse"

(***************************************************************************)
(* Claims about one refresh: client, then estimator.                       *)
(***************************************************************************)
noRepeats(seq) == \A a, b \in 1..Len(seq) : seq[a] = seq[b] => a = b

\* C16: no external call is retried.  A call of estimateSingle issues one
\* backend request when the configuration is eligible and none otherwise,
\* nothing else issues one (so none follows a failure, and estimateAll over
\* N items with an eligible configuration issues N), and no endpoint of the
\* source client is requested twice in one call.
C16_NoRetries ==
    /\ [](/\ noRepeats(eRequests)
          /\ Len(eRequests) <= Len(eInput)
          /\ noRepeats(cHttp)
          /\ \A i \in 1..Len(eOutput) :
                eOutput[i].estimationMethod = "ai" => \E k \in 1..Len(eRequests) : eRequests[k] = i)
    /\ [][/\ EstimateSingleConfigure =>
                eRequests' = IF useAI(configure(est, syncStore))
                             THEN Append(eRequests, Len(eOutput) + 1)
                             ELSE eRequests
          /\ eRequests' # eRequests => EstimateSingleConfigure
          /\ (\E r \in Responses : BackendResponse(r)) =>
                /\ eRequests' = eRequests
                /\ epc' # "await_backend"]_vars

\* estimateAll over the two items that the planner request returned: two
\* requests, the second of which failed and was not sent again.
C16_Witness ==
    /\ eOp = "estimateAll" /\ epc = "done" /\ Len(eInput) = 2
    /\ eRequests = <<1, 2>>
    /\ responseOk(eLast.resp) = FALSE
    /\ eOutput[2].estimationMethod = "heuristic"
    /\ cHttp = <<"planner">>

\* C17: within one estimateAll pass every item is estimated under the same
\* provider and key as the item before it, also when the settings store is
\* written while the pass is in progress.
C17_ConfigFixedDuringPass ==
    [][(eOp = "estimateAll" /\ Len(eOutput) >= 1 /\ EstimateSingleConfigure) => est' = est]_vars

\* The enumerated categories.
CategoryNames ==
    {kwQuiz, kwDiscussion, kwEssay, kwProject, kwExam, kwReading, strAssignment,
     <<"o", "t", "h", "e", "r">>}

\* C18: every item that a normalizer of the client produced, and every
\* enriched item that the estimator returned, has a type that is one of
\* quiz, discussion, essay, project, exam, reading, assignment, other.
C18_CategoryEnumerated ==
    /\ \A i \in 1..Len(cResult) : cResult[i].type \in CategoryNames
    /\ \A i \in 1..Len(eOutput) : eOutput[i].type \in CategoryNames

(***************************************************************************)
(* Claims about the bonuses of the scorer.                                 *)
(***************************************************************************)
withModalities(assignment, elems) ==
    [assignment EXCEPT !.submissionTypes = SubmissionTypes(elems)]

\* C20: before clamping, the upload bonus (+15) and the media-recording
\* bonus (+30) are each added on their own, so that both together add 45
\* to the estimate with neither; the order of the modality list and its
\* other entries make no difference.
C20_BonusesAdditive ==
    hCalls = 1 =>
        LET neither == minutesBeforeClamp(withModalities(hItem, <<>>))
            bonus   == (IF hasModality(hItem, "online_upload") THEN 15 ELSE 0)
                       + (IF hasModality(hItem, "media_recording") THEN 30 ELSE 0)
        IN  /\ minutesBeforeClamp(hItem) = neither + bonus
            /\ hMinutes = MathMin(MathMax(neither + bonus, 15), 480)
            /\ hItem.submissionTypes.isArray =>
                  /\ \A p \in permutations(hItem.submissionTypes.elems) :
                        minutesBeforeClamp(withModalities(hItem, p)) = minutesBeforeClamp(hItem)
                  /\ minutesBeforeClamp(withModalities(hItem,
                         SelectSeq(hItem.submissionTypes.elems,
                                   LAMBDA m : m \in {"online_upload", "media_recording"})))
                        = minutesBeforeClamp(hItem)

\* An item with both modalities and a third entry between them, in the
\* order media then upload, whose estimate is 45 above the one with neither
\* and inside the clamp.
C20_Witness ==
    /\ hCalls = 1
    /\ hItem.submissionTypes
          = SubmissionTypes(<<"media_recording", "online_text_entry", "online_upload">>)
    /\ hMinutes = minutesBeforeClamp(withModalities(hItem, <<>>)) + 45
    /\ 15 < hMinutes /\ hMinutes < 480

(***************************************************************************)
(* Claims about the messages of the worker.                                *)
(***************************************************************************)
MessageKinds ==
    {"GET_ASSIGNMENTS", "REFRESH_ASSIGNMENTS", "GET_CACHED_ASSIGNMENTS", "ESTIMATE_SINGLE",
     "TEST_CONNECTION", "unknown"}

\* The response types a message of the kind is answered with.
replyTypes(kind) ==
    IF kind = "GET_ASSIGNMENTS" THEN {"assignments"}
    ELSE IF kind = "REFRESH_ASSIGNMENTS" THEN {"success"}
    ELSE IF kind = "GET_CACHED_ASSIGNMENTS" THEN {"cached"}
    ELSE IF kind = "ESTIMATE_SINGLE" THEN {"estimate"}
    ELSE IF kind = "TEST_CONNECTION" THEN {"success", "failure"}
    ELSE {"error"}

received(h) == handler[h].kind \in MessageKinds

answered(h) == handler[h].pc = "done" /\ handler[h].resp.type \in replyTypes(handler[h].kind)

CredentialValues == {Missing, Held(""), Held("t1"), Held("x")}

\* The stores that differ from the store in nothing but the credentials.
sameButCredentials(store) ==
    { [store EXCEPT !.apiToken = a, !.openaiApiKey = b, !.anthropicApiKey = c] :
        a \in CredentialValues, b \in CredentialValues, c \in CredentialValues }

credentialsOf(store) == <<store.apiToken, store.openaiApiKey, store.anthropicApiKey>>

\* C21: an export holds none of apiToken, openaiApiKey, anthropicApiKey, so
\* the exports of two stores that differ only in these differ in nothing
\* but exportDate; importing an export leaves the stored credentials as
\* they are.
C21_ExportWithoutCredentials ==
    /\ [](/\ credentialsOf(oExport) = <<Missing, Missing, Missing>>
          /\ oOp = "export" =>
                \A other \in sameButCredentials(oStore), date \in ExportDates :
                    [exportSettings(other, date) EXCEPT !.exportDate = oExport.exportDate]
                        = oExport)
    /\ [][OptionsImportExport => credentialsOf(oStore') = credentialsOf(oStore)]_vars

\* An export was imported into a store that holds a token: the interval
\* came from the file, the token stayed.
C21_Witness ==
    /\ oOp = "import"
    /\ oStore.apiToken = Held("t1")
    /\ oStore.refreshInterval = Held(60)
    /\ oAlarm = Held(RefreshIntervalMinutes)

\* C28: after any sequence of install and update events, saves, imports
\* and resets there is one refresh alarm, and its period is the
\* refreshInterval of the store, 30 minutes when none is stored.
C28_AlarmFollowsInterval ==
    oOp # "none" =>
        /\ oAlarm.has
        /\ oAlarm.v = IF oStore.refreshInterval.has THEN oStore.refreshInterval.v
                      ELSE RefreshIntervalMinutes

(***************************************************************************)
(* Claims about debounce.                                                  *)
(***************************************************************************)
\* C22: func is invoked only when wait has passed since the most recent
\* call of the debounced function, once for the calls made since its last
\* invocation and with the arguments of the last of them; a call never
\* invokes func itself, and calls that were made are followed by an
\* invocation.
C22_DebounceTrailing ==
    /\ [][/\ dInvoked' # dInvoked =>
                /\ dSince >= 1 /\ dLast.has
                /\ dClock >= dLast.at + DebounceWait
                /\ dInvoked' = Append(dInvoked, [at |-> dClock, args |-> dLast.args])
                /\ dCalls' = dCalls
          /\ dCalls' # dCalls => dInvoked' = dInvoked]_vars
    /\ [](dSince >= 1 => <>(dSince = 0))
    /\ [](Len(dInvoked) <= dCalls)

\* Two calls in one burst, then one invocation with the arguments of the
\* second; a later call was invoked on its own.
C22_Witness ==
    /\ Len(dInvoked) = 2
    /\ dCalls = 3
    /\ dInvoked[1].args = "b"
    /\ dInvoked[2].args = "a"

(***************************************************************************)
(* Claims about truncate.                                                  *)
(***************************************************************************)
endsWith(text, suffix) ==
    Len(text) >= Len(suffix) /\ SubSeq(text, Len(text) - Len(suffix) + 1, Len(text)) = suffix

\* C23: helpers.truncate returns the text unchanged when it is not longer
\* than maxLength, and otherwise a string of exactly maxLength characters
\* that ends with the suffix; the result is never longer than maxLength.
C23_TruncateWithinMaxLength ==
    tBy = "helpers" =>
        IF Len(tText) <= tMax THEN tOut = tText
        ELSE Len(tOut) = tMax /\ endsWith(tOut, tSuffix)

(***************************************************************************)
(* Claims about what the worker replies after a pass.                      *)
(***************************************************************************)
\* C25: whenever getAssignments answers with fromCache false, the
\* assignments it returns were fetched and stored during that same call:
\* its pass wrote the cache, and the reply carries a timestamp.
C25_NotFromCacheIsStoredNow ==
    \A h \in Handlers :
        /\ handler[h].kind = "GET_ASSIGNMENTS"
        /\ handler[h].resp.type = "assignments"
        /\ ~handler[h].resp.fromCache
        => /\ handler[h].wrote
           /\ handler[h].resp.lastUpdated.has

\* C26: REFRESH_ASSIGNMENTS is answered with { success: true } only if the
\* pass it started replaced the snapshot; a skipped or failed pass is not
\* reported as a success.
C26_SuccessOnlyWhenStored ==
    \A h \in Handlers :
        /\ handler[h].kind = "REFRESH_ASSIGNMENTS"
        /\ handler[h].resp.type = "success"
        => /\ handler[h].wrote
           /\ ~failedAsWhole(handler[h])

(***************************************************************************)
(* Claims about overlapping passes.                                        *)
(***************************************************************************)
\* C24: a pass that fetched earlier never overwrites the snapshot of a pass
\* that fetched later: every write replaces a snapshot built from an
\* earlier fetch, or fills an empty cache.
C24_LatestFetchWins ==
    [][\A p \in Passes :
          PassEstimateReturns(p) => (snapshot.has => snapshot.fetchNo < pass[p].fetchNo)]_vars

(***************************************************************************)
(* Claims about the value of estimatedMinutes.                             *)
(***************************************************************************)
\* C27: every result of estimateSingle has a numeric estimatedMinutes, also
\* when the method is "ai" and the backend text parsed as JSON without a
\* numeric "minutes".
C27_MinutesAlwaysNumeric ==
    /\ eLast.done => eLast.result.estimatedMinutes.ty = "number"
    /\ \A i \in 1..Len(eOutput) : eOutput[i].estimatedMinutes.ty = "number"

(***************************************************************************)
(* Claims about the urgency predicates.                                    *)
(***************************************************************************)
\* C29: for every due date and every current time, the worker's filter
\* counts an item exactly when isUrgent is true, getUrgencyLevel returns
\* "urgent" exactly when isUrgent is true, and "overdue" exactly when
\* isOverdue is true.
C29_UrgencyPredicatesAgree ==
    /\ gBy = "worker" => (gOut = "true" <=> helpersIsUrgent(gDue, gNow))
    /\ gBy = "getUrgencyLevel" =>
          /\ gOut = "urgent" <=> helpersIsUrgent(gDue, gNow)
          /\ gOut = "overdue" <=> helpersIsOverdue(gDue, gNow)

(***************************************************************************)
(* Claims about the content script.                                        *)
(***************************************************************************)
badgesOf(e) == cInside[e] + cAfter[e]

\* C30: under any interleaving of the scans each element has at most one
\* badge, wherever the badge is placed, and an element that is already
\* marked processed is never given another badge.
C30_OneBadgePerElement ==
    /\ \A e \in Elements : badgesOf(e) <= 1
    /\ ~cMarked

====
